---- MODULE Spec2Model ----
(***************************************************************************)
(* A model of the virtio network driver of the kernel                      *)
(* (src/drivers/net/virtio_net.rs): the initialisation handshake with      *)
(* feature negotiation, the RX/TX queue sets with their buffer tokens and  *)
(* completion channels, and the send/receive fast path.                    *)
(*                                                                         *)
(* A 64-bit feature word is modelled as the set of its set bit positions   *)
(* (a subset of 0..63): `&` is intersection, `|` is union, `!= 0` is       *)
(* non-emptiness.  A value of the Features enum is modelled as its bit     *)
(* position.                                                               *)
(***************************************************************************)
EXTENDS Integers, Sequences, FiniteSets, TLC

(***************************************************************************)
(* Features enum: the bit position of each enumerator (1 << n in the code) *)
(***************************************************************************)
VIRTIO_NET_F_CSUM == 0
VIRTIO_NET_F_GUEST_CSUM == 1
VIRTIO_NET_F_CTRL_GUEST_OFFLOADS == 2
VIRTIO_NET_F_MTU == 3
VIRTIO_NET_F_MAC == 5
VIRTIO_NET_F_GUEST_TSO4 == 7
VIRTIO_NET_F_GUEST_TSO6 == 8
VIRTIO_NET_F_GUEST_ECN == 9
VIRTIO_NET_F_GUEST_UFO == 10
VIRTIO_NET_F_HOST_TSO4 == 11
VIRTIO_NET_F_HOST_TSO6 == 12
VIRTIO_NET_F_HOST_ECN == 13
VIRTIO_NET_F_HOST_UFO == 14
VIRTIO_NET_F_MRG_RXBUF == 15
VIRTIO_NET_F_STATUS == 16
VIRTIO_NET_F_CTRL_VQ == 17
VIRTIO_NET_F_CTRL_RX == 18
VIRTIO_NET_F_CTRL_VLAN == 19
VIRTIO_NET_F_GUEST_ANNOUNCE == 21
VIRTIO_NET_F_MQ == 22
VIRTIO_NET_F_CTRL_MAC_ADDR == 23
VIRTIO_F_RING_INDIRECT_DESC == 28
VIRTIO_F_RING_EVENT_IDX == 29
VIRTIO_F_VERSION_1 == 32
VIRTIO_F_ACCESS_PLATFORM == 33
VIRTIO_F_RING_PACKED == 34
VIRTIO_F_IN_ORDER == 35
VIRTIO_F_ORDER_PLATFORM == 36
VIRTIO_F_SR_IOV == 37
VIRTIO_F_NOTIFICATION_DATA == 38
VIRTIO_NET_F_GUEST_HDRLEN == 59
VIRTIO_NET_F_RSC_EXT == 61
VIRTIO_NET_F_STANDBY == 62

\* Every enumerator of Features, in the ascending bit order in which
\* Features::from_set tests them.
FeaturesInOrder ==
    << VIRTIO_NET_F_CSUM, VIRTIO_NET_F_GUEST_CSUM, VIRTIO_NET_F_CTRL_GUEST_OFFLOADS,
       VIRTIO_NET_F_MTU, VIRTIO_NET_F_MAC, VIRTIO_NET_F_GUEST_TSO4,
       VIRTIO_NET_F_GUEST_TSO6, VIRTIO_NET_F_GUEST_ECN, VIRTIO_NET_F_GUEST_UFO,
       VIRTIO_NET_F_HOST_TSO4, VIRTIO_NET_F_HOST_TSO6, VIRTIO_NET_F_HOST_ECN,
       VIRTIO_NET_F_HOST_UFO, VIRTIO_NET_F_MRG_RXBUF, VIRTIO_NET_F_STATUS,
       VIRTIO_NET_F_CTRL_VQ, VIRTIO_NET_F_CTRL_RX, VIRTIO_NET_F_CTRL_VLAN,
       VIRTIO_NET_F_GUEST_ANNOUNCE, VIRTIO_NET_F_MQ, VIRTIO_NET_F_CTRL_MAC_ADDR,
       VIRTIO_F_RING_INDIRECT_DESC, VIRTIO_F_RING_EVENT_IDX, VIRTIO_F_VERSION_1,
       VIRTIO_F_ACCESS_PLATFORM, VIRTIO_F_RING_PACKED, VIRTIO_F_IN_ORDER,
       VIRTIO_F_ORDER_PLATFORM, VIRTIO_F_SR_IOV, VIRTIO_F_NOTIFICATION_DATA,
       VIRTIO_NET_F_GUEST_HDRLEN, VIRTIO_NET_F_RSC_EXT, VIRTIO_NET_F_STANDBY >>

\* The elements of a sequence, as a set.
Range(s) == { s[i] : i \in 1..Len(s) }

(***************************************************************************)
(* FeatureSet                                                              *)
(***************************************************************************)
\* FeatureSet::is_feature: self.0 & feature != 0
is_feature(set, feature) == ({feature} \cap set) # {}

\* FeatureSet::set_features: OR every feature of the list into the set.
RECURSIVE set_features(_, _)
set_features(set, features) ==
    IF features = << >> THEN set
    ELSE set_features(set \cup {Head(features)}, Tail(features))

\* Features::from_set: the list of the enumerators whose bit is set, in
\* ascending bit order.  (The Option is modelled by the empty list: the code
\* returns None exactly when the list is empty.)
RECURSIVE from_set_from(_, _)
from_set_from(feature_set, i) ==
    IF i > Len(FeaturesInOrder) THEN << >>
    ELSE (IF FeaturesInOrder[i] \in feature_set THEN << FeaturesInOrder[i] >> ELSE << >>)
         \o from_set_from(feature_set, i + 1)

\* from_set with the test of bit 32 (VIRTIO_F_VERSION_1) left out.
from_set_without_version_1(feature_set) ==
    from_set_from(feature_set \ {VIRTIO_F_VERSION_1}, 1)

from_set(feature_set) == from_set_from(feature_set, 1)

\* The requirement attached to one feature by the match in
\* FeatureSet::check_features (Virtio specification v1.1 - 5.1.3.1), tested
\* against the union of the list's bits.
RequirementMet(feature, feature_bits) ==
    CASE feature \in {VIRTIO_NET_F_GUEST_TSO4, VIRTIO_NET_F_GUEST_TSO6, VIRTIO_NET_F_GUEST_UFO}
            -> feature_bits \cap {VIRTIO_NET_F_GUEST_CSUM} # {}
      [] feature = VIRTIO_NET_F_GUEST_ECN
            -> feature_bits \cap {VIRTIO_NET_F_GUEST_TSO4, VIRTIO_NET_F_GUEST_TSO6} # {}
      [] feature \in {VIRTIO_NET_F_HOST_TSO4, VIRTIO_NET_F_HOST_TSO6, VIRTIO_NET_F_HOST_UFO}
            -> feature_bits \cap {VIRTIO_NET_F_CSUM} # {}
      [] feature \in {VIRTIO_NET_F_HOST_ECN, VIRTIO_NET_F_RSC_EXT}
            -> feature_bits \cap {VIRTIO_NET_F_HOST_TSO4, VIRTIO_NET_F_HOST_TSO6} # {}
      [] feature \in {VIRTIO_NET_F_CTRL_RX, VIRTIO_NET_F_CTRL_VLAN, VIRTIO_NET_F_GUEST_ANNOUNCE,
                      VIRTIO_NET_F_MQ, VIRTIO_NET_F_CTRL_MAC_ADDR}
            -> feature_bits \cap {VIRTIO_NET_F_CTRL_VQ} # {}
      [] OTHER -> TRUE

(***************************************************************************)
(* VirtioNetError.  One record shape for every variant; the fields a       *)
(* variant does not carry are 0 / {}.                                      *)
(***************************************************************************)
NotCalled == [tag |-> "none", dev_id |-> 0, a |-> {}, b |-> {}]
NoError == [tag |-> "Ok", dev_id |-> 0, a |-> {}, b |-> {}]
FailFeatureNeg(dev_id) == [tag |-> "FailFeatureNeg", dev_id |-> dev_id, a |-> {}, b |-> {}]
FeatureRequirementsNotMet(set) ==
    [tag |-> "FeatureRequirementsNotMet", dev_id |-> 0, a |-> set, b |-> {}]
IncompatibleFeatureSets(driver_features, device_features) ==
    [tag |-> "IncompatibleFeatureSets", dev_id |-> 0, a |-> driver_features, b |-> device_features]

\* The second loop of FeatureSet::check_features, from feature i on: Ok, or
\* FeatureRequirementsNotMet carrying feature_bits, returned at the first
\* feature whose requirement fails.
RECURSIVE check_from(_, _, _)
check_from(features, i, feature_bits) ==
    IF i > Len(features) THEN NoError
    ELSE IF RequirementMet(features[i], feature_bits)
    THEN check_from(features, i + 1, feature_bits)
    ELSE FeatureRequirementsNotMet(feature_bits)

\* check_features with one loop only: each requirement is tested against the
\* bits of the features up to and including the one tested.
RECURSIVE check_one_pass_from(_, _, _)
check_one_pass_from(features, i, feature_bits) ==
    IF i > Len(features) THEN NoError
    ELSE IF RequirementMet(features[i], feature_bits \cup {features[i]})
    THEN check_one_pass_from(features, i + 1, feature_bits \cup {features[i]})
    ELSE FeatureRequirementsNotMet(Range(features))
check_features_one_pass(features) == check_one_pass_from(features, 1, {})

\* FeatureSet::check_features: the first loop ORs every feature of the list
\* into feature_bits, the second tests each feature's requirement against it.
check_features(features) == check_from(features, 1, set_features({}, features))

(***************************************************************************)
(* Bounds of the model and the values the environment may supply           *)
(***************************************************************************)
\* The number of descriptors of every virtqueue (vq.size()).
RingSize == 2
\* The number of on-demand TX allocations (prep_buffer in get_tkn) that may
\* succeed in one behaviour; further ones fail.
MaxAlloc == 1
\* The largest num_buffers value the device writes into an RX header.
MaxNumBuffers == 2

\* dev_cfg.dev_id
DevId == 7
\* size_of::<VirtioNetHdr>()
HdrSize == 12
\* size_of::<crossbeam_utils::CachePadded<u8>>() on x86_64 and aarch64
CachePaddedSize == 128
\* The frame size used for RX buffers when VIRTIO_NET_F_MRG_RXBUF is negotiated
MrgFrameSize == 1514
\* The TX payload size when GUEST_TSO4 / GUEST_TSO6 / GUEST_UFO is negotiated
TsoFrameSize == 65550
MAX_NUM_VQ == 2

\* The MTU the driver object holds before init_dev.
PreInitMtus == {1500}
\* The MTU the device advertises in its configuration space.
DevMtus == {1400, 1500}
\* smoltcp's Checksum enum
Checksum == {"Both", "Rx", "Tx", "None"}
\* The checksum record the driver object holds before init_dev: smoltcp's
\* default (Both) or a record preset by whoever constructed the driver.
PreInitChecksums == { [tcp |-> "Both", udp |-> "Both"], [tcp |-> "Tx", udp |-> "Rx"] }

\* MinimalFeatures with the bug of leaving out VIRTIO_NET_F_MAC.
MinimalFeatures_without_mac == << VIRTIO_F_VERSION_1 >>

\* The feature bits of init_dev's lists.
MinimalFeatures == << VIRTIO_F_VERSION_1, VIRTIO_NET_F_MAC >>
DesiredFeatures ==
    MinimalFeatures \o
    << VIRTIO_NET_F_STATUS, VIRTIO_F_RING_INDIRECT_DESC, VIRTIO_NET_F_MTU,
       VIRTIO_F_RING_PACKED, VIRTIO_NET_F_GUEST_CSUM, VIRTIO_NET_F_CSUM,
       VIRTIO_NET_F_MRG_RXBUF >>

\* The two lists as feature words.
DesiredSet == Range(DesiredFeatures)
MinimalSet == Range(MinimalFeatures)

\* Feature words a device may offer: any combination of VaryingOfferBits, with
\* or without the three remaining desired bits.  VIRTIO_NET_F_MQ is a bit the
\* driver does not ask for.
VaryingOfferBits ==
    { VIRTIO_F_VERSION_1, VIRTIO_NET_F_MAC, VIRTIO_NET_F_MTU, VIRTIO_NET_F_CSUM,
      VIRTIO_NET_F_GUEST_CSUM, VIRTIO_NET_F_MRG_RXBUF, VIRTIO_NET_F_MQ }
FixedOfferBits ==
    { VIRTIO_NET_F_STATUS, VIRTIO_F_RING_INDIRECT_DESC, VIRTIO_F_RING_PACKED }
DeviceOffers ==
    { x \cup y : x \in SUBSET VaryingOfferBits, y \in { {}, FixedOfferBits } }
\* What a second read of the device features may return after a first read d:
\* the same word, or the word with VIRTIO_NET_F_MTU withdrawn.
SecondOffers(d) == { d, d \ {VIRTIO_NET_F_MTU} }

(***************************************************************************)
(* State                                                                   *)
(***************************************************************************)
VARIABLES
    dev_status,       \* com_cfg: the device status bits that are set
    dev_mtu,          \* dev_cfg.raw: the MTU field of the device configuration
    drv_features,     \* com_cfg: the values written to the driver-features field, in order
    dev_reads,        \* the values com_cfg.dev_features() returned, in order
    oplog,            \* the transport and queue operations init_dev performed, in order
    init_result,      \* NotCalled before init_dev, afterwards the VirtioNetError or NoError
    features,         \* dev_cfg.features
    mtu,              \* VirtioNetDriver.mtu
    checksums,        \* VirtioNetDriver.checksums (the tcp and udp fields)
    num_vqs,          \* VirtioNetDriver.num_vqs
    ctrl_vq,          \* CtrlQueue: << >> for None, << ring >> for Some(ring)
    recv_vqs,         \* RxQueues: [vqs, is_multi]; a ring is [index, notifs, size, avail, used]
    rx_chan,          \* RxQueues.poll_sender / poll_receiver: the completed RX tokens
    send_vqs,         \* TxQueues: [vqs, is_multi]
    ready_queue,      \* TxQueues.ready_queue
    tx_chan,          \* TxQueues.poll_sender / poll_receiver: the completed TX tokens
    panicked,         \* a panic!/unwrap failure has stopped the kernel
    pre,              \* the mtu and checksum record the driver held before init_dev
    tx_count,         \* bookkeeping: TX tokens discarded / allocated on demand by get_tkn
    rx_last,          \* bookkeeping: what receive_packet did or has_packet returned, if
                      \* it was the last RX step
    tx_last,          \* bookkeeping: whether the last send_packet invoked the filler, and on which slice
    isr_stat,         \* isr_stat: the ISR status bits raised and not yet acknowledged
    ctl_last,         \* bookkeeping: the last get_mac_address / handle_interrupt /
                      \* set_polling_mode call, and the value of the last set_polling_mode
    sys,              \* the state the socket system calls share (FD_COUNTER, the object
                      \* map, NIC and its lock) and the position of each caller
    fn_call           \* bookkeeping: the argument and the result of the last call of
                      \* check_features, of from_set / set_features or of the header codec

vars == << dev_status, dev_mtu, drv_features, dev_reads, oplog, init_result, features,
           mtu, checksums, num_vqs, ctrl_vq, recv_vqs, rx_chan, send_vqs, ready_queue, tx_chan,
           panicked, pre, tx_count, rx_last, tx_last, isr_stat, ctl_last, fn_call, sys >>

NoReceive == [called |-> FALSE, returned |-> FALSE, some |-> FALSE, data |-> << >>,
              popped |-> << >>, frags |-> << >>, provided |-> << >>, has |-> "none"]
\* No slice of a buffer: send_packet has not invoked the filler.
NoSlice == [start |-> 0, len |-> 0]
NoSend == [called |-> FALSE, filled |-> FALSE, slice |-> NoSlice]
NoCall == [op |-> "none", status |-> {}, result |-> "none", acked |-> FALSE,
           polling |-> "none"]
NoFn == [op |-> "none", arg |-> << >>, ret |-> << >>]

\* The threads that call sys_socket.
Threads == {1, 2}
\* The value of FD_COUNTER when the first socket is created: the descriptors
\* below it are the standard streams.
FirstFd == 3
\* A caller that is in no call of sys_socket and has completed none.
NoSocketCall ==
    [domain |-> -1, type_ |-> -1, protocol |-> -1, nic |-> "none", took |-> FALSE,
     done |-> FALSE, ret |-> 0]
\* The kernel before any socket call: NIC is not initialised and not locked.
SysInit ==
    [FD_COUNTER |-> FirstFd, objects |-> {}, NIC |-> "Uninitialized", guard |-> 0,
     pc |-> [t \in Threads |-> "idle"], fd |-> [t \in Threads |-> 0],
     call |-> [t \in Threads |-> NoSocketCall], returned |-> << >>, calls |-> 0,
     panic |-> FALSE]

InitDriver ==
    /\ dev_status = {}
    /\ sys = SysInit
    /\ dev_mtu \in DevMtus
    /\ drv_features = << >>
    /\ dev_reads = << >>
    /\ oplog = << >>
    /\ init_result = NotCalled
    /\ features = {}
    /\ mtu \in PreInitMtus
    /\ checksums \in PreInitChecksums
    /\ num_vqs = 0
    /\ ctrl_vq = << >>
    /\ recv_vqs = [vqs |-> << >>, is_multi |-> FALSE]
    /\ rx_chan = << >>
    /\ send_vqs = [vqs |-> << >>, is_multi |-> FALSE]
    /\ ready_queue = << >>
    /\ tx_chan = << >>
    /\ panicked = FALSE
    /\ pre = [mtu |-> mtu, checksums |-> checksums]
    /\ tx_count = [discarded |-> 0, allocated |-> 0]
    /\ rx_last = NoReceive
    /\ tx_last = NoSend
    /\ isr_stat = {}
    /\ ctl_last = NoCall

Init == InitDriver /\ fn_call = NoFn

(***************************************************************************)
(* The transport's common configuration (ComCfg), as init_dev uses it.     *)
(* A handshake state s is the record of everything init_dev reads and      *)
(* writes; s.err is the error init_dev is about to return (NoError: none). *)
(***************************************************************************)
reset_dev(s) == [s EXCEPT !.dev_status = {}, !.oplog = Append(@, "reset_dev")]
ack_dev(s) == [s EXCEPT !.dev_status = @ \cup {"ACKNOWLEDGE"}, !.oplog = Append(@, "ack_dev")]
set_drv(s) == [s EXCEPT !.dev_status = @ \cup {"DRIVER"}, !.oplog = Append(@, "set_drv")]
features_ok(s) ==
    [s EXCEPT !.dev_status = @ \cup {"FEATURES_OK"}, !.oplog = Append(@, "features_ok")]
drv_ok(s) == [s EXCEPT !.dev_status = @ \cup {"DRIVER_OK"}, !.oplog = Append(@, "drv_ok")]
\* com_cfg.dev_features(): the device answers d.
dev_features(s, d) == [s EXCEPT !.dev_reads = Append(@, d), !.oplog = Append(@, "dev_features")]
set_drv_features(s, set) ==
    [s EXCEPT !.drv_features = Append(@, set), !.oplog = Append(@, "set_drv_features")]
\* com_cfg.check_features(): re-read the status.  A device that does not
\* accept the written set has cleared FEATURES_OK by then.
com_check_features(s, accept) ==
    [s EXCEPT !.dev_status = IF accept THEN @ ELSE @ \ {"FEATURES_OK"},
              !.oplog = Append(@, "check_features")]

\* negotiate_features with the bug of writing the device's whole offer
\* instead of the driver's list.
negotiate_features_writes_offer(s, wanted_features, d) ==
    IF check_features(wanted_features).tag # "Ok"
    THEN [dev_features(s, d) EXCEPT !.err = check_features(wanted_features)]
    ELSE IF (d \cap set_features({}, wanted_features)) = set_features({}, wanted_features)
    THEN set_drv_features(dev_features(s, d), d)
    ELSE [dev_features(s, d) EXCEPT
             !.err = IncompatibleFeatureSets(set_features({}, wanted_features), d)]

(***************************************************************************)
(* VirtioNetDriver::negotiate_features.  d is what the device offers when  *)
(* the function reads the device features.                                 *)
(***************************************************************************)
negotiate_features(s, wanted_features, d) ==
    IF check_features(wanted_features).tag # "Ok"
    THEN [dev_features(s, d) EXCEPT !.err = check_features(wanted_features)]
    ELSE IF (d \cap set_features({}, wanted_features)) = set_features({}, wanted_features)
    THEN set_drv_features(dev_features(s, d), set_features({}, wanted_features))
    ELSE [dev_features(s, d) EXCEPT
             !.err = IncompatibleFeatureSets(set_features({}, wanted_features), d)]

\* The second negotiation of init_dev, with the list rebuilt from
\* device & driver features; the list is empty when from_set returns None.
second_negotiation(first, reduced, d2) ==
    IF reduced = << >>
    THEN [first EXCEPT !.err = FailFeatureNeg(DevId)]
    ELSE negotiate_features([first EXCEPT !.err = NoError, !.features_list = reduced],
                            reduced, d2)

\* after_first_negotiation with the bug of not testing the minimal set before
\* the fallback.
after_first_negotiation_no_minimal_test(first, d2) ==
    CASE first.err.tag = "Ok" -> first
      [] first.err.tag = "FeatureRequirementsNotMet" -> first
      [] first.err.tag = "IncompatibleFeatureSets" ->
            second_negotiation(first, from_set(first.err.b \cap first.err.a), d2)
      [] OTHER -> first

\* after_first_negotiation that returns the error of the first negotiation
\* instead of trying the reduced list.
after_first_negotiation_no_fallback(first, d2) ==
    CASE first.err.tag = "Ok" -> first
      [] first.err.tag = "FeatureRequirementsNotMet" -> first
      [] first.err.tag = "IncompatibleFeatureSets" ->
            IF (set_features({}, MinimalFeatures) \cap first.err.b)
                   # set_features({}, MinimalFeatures)
            THEN [first EXCEPT !.err = FailFeatureNeg(DevId)]
            ELSE first
      [] OTHER -> first

\* init_dev, the match on the result of the first negotiation (first.err):
\* an IncompatibleFeatureSets(driver_features, device_features) leads to the
\* fallback if the device offers the minimal set.
after_first_negotiation(first, d2) ==
    CASE first.err.tag = "Ok" -> first
      [] first.err.tag = "FeatureRequirementsNotMet" -> first
      [] first.err.tag = "IncompatibleFeatureSets" ->
            IF (set_features({}, MinimalFeatures) \cap first.err.b)
                   # set_features({}, MinimalFeatures)
            THEN [first EXCEPT !.err = FailFeatureNeg(DevId)]
            ELSE second_negotiation(first, from_set(first.err.b \cap first.err.a), d2)
      [] OTHER -> first

\* init_dev, the feature selection: the first negotiation with the desired
\* list and what follows from its result.  s.features_list is the local
\* `features` of init_dev.
feature_selection(s, d1, d2) ==
    after_first_negotiation(
        negotiate_features([s EXCEPT !.features_list = DesiredFeatures],
                           DesiredFeatures, d1),
        d2)

\* probe_result with the bug of recording the features whatever the re-read
\* status says.
probe_result_records_always(s) ==
    IF "FEATURES_OK" \in s.dev_status
    THEN [s EXCEPT !.features = set_features(@, s.features_list)]
    ELSE [s EXCEPT !.features = set_features(@, s.features_list),
                   !.err = FailFeatureNeg(DevId)]

\* init_dev, lines 860-869: on the re-read status, record the negotiated
\* features in dev_cfg.features or fail.
probe_result(s) ==
    IF "FEATURES_OK" \in s.dev_status
    THEN [s EXCEPT !.features = set_features(@, s.features_list)]
    ELSE [s EXCEPT !.err = FailFeatureNeg(DevId)]

\* init_dev, lines 855-869: set FEATURES_OK, re-read the status, and act on it.
features_ok_probe(s, accept) == probe_result(com_check_features(features_ok(s), accept))

(***************************************************************************)
(* The virtqueue interface the driver consumes (Virtq, BufferToken).  A    *)
(* ring holds the tokens provided to the device (avail, oldest first) and  *)
(* those the device has finished with and poll() has not yet routed to the *)
(* completion channel (used).                                              *)
(***************************************************************************)
\* SplitVq::new / PackedVq::new with VqSize and VqIndex
NewVirtq(index) ==
    [index |-> index, notifs |-> FALSE, size |-> RingSize, avail |-> << >>, used |-> << >>]
enable_notifs(vq) == [vq EXCEPT !.notifs = TRUE]
disable_notifs(vq) == [vq EXCEPT !.notifs = FALSE]
\* tkn.provide().dispatch_await(sender, false): the token is on the ring,
\* its completion is routed to the sender's channel by a later poll().
provide(vq, tkn) == [vq EXCEPT !.avail = Append(@, tkn)]
\* vq.prep_buffer(None, Some(Single(size))): a token with one receive buffer.
\* vq is the position of its ring in the queue set, id names the token.
RxBufferToken(vq, id, size) ==
    [vq |-> vq, id |-> id, cap |-> size, len |-> 0, num_buffers |-> 0]
\* NetHdrFlag and NetHdrGSO values
VIRTIO_NET_HDR_F_NONE == 0
VIRTIO_NET_HDR_F_NEEDS_CSUM == 1
VIRTIO_NET_HDR_GSO_NONE == 0
\* smoltcp::wire::ETHERNET_HEADER_LEN
ETHERNET_HEADER_LEN == 14

\* VirtioNetHdr::default
DefaultHdr ==
    [flags |-> VIRTIO_NET_HDR_F_NONE, gso_type |-> VIRTIO_NET_HDR_GSO_NONE, hdr_len |-> 0,
     gso_size |-> 0, csum_start |-> 0, csum_offset |-> 0, num_buffers |-> 0]
\* The first 12 bytes of a buffer nobody has written yet: no field has a
\* value the driver put there.
UnwrittenHdr ==
    [flags |-> -1, gso_type |-> -1, hdr_len |-> -1, gso_size |-> -1, csum_start |-> -1,
     csum_offset |-> -1, num_buffers |-> -1]
\* The bytes after the header of a buffer the filler has not written yet.
NoFrame == [ethertype |-> "unwritten", ihl |-> 0, next_header |-> "none"]

\* vq.prep_buffer(Some(Single(size)), None): a token with one send buffer
TxBufferToken(size) == [cap |-> size, len |-> size, hdr |-> UnwrittenHdr, frame |-> NoFrame]
\* BufferToken::write_seq(Some(&hdr), None): the header is copied to the start
\* of the send buffer.
write_seq(tkn, hdr) == [tkn EXCEPT !.hdr = hdr]
\* BufferToken::reset: the token is idle again, its size restriction and the
\* record of what the device wrote are gone.
reset_rx(tkn) == [tkn EXCEPT !.len = 0, !.num_buffers = 0]
reset_tx(tkn) == [tkn EXCEPT !.len = tkn.cap]
\* BufferToken::restr_size(Some(len), None)
restr_size(tkn, len) == [tkn EXCEPT !.len = len]

\* usize::align_up
align_up(x, align) == ((x + align - 1) \div align) * align

(***************************************************************************)
(* RxQueues::add and TxQueues::add                                         *)
(***************************************************************************)
\* The size of every RX buffer RxQueues::add posts.
rx_size(feats, device_mtu) ==
    IF is_feature(feats, VIRTIO_NET_F_MRG_RXBUF)
    THEN align_up(MrgFrameSize + HdrSize, CachePaddedSize)
    ELSE device_mtu + HdrSize

RxQueues_add(rq, vq, feats, device_mtu) ==
    LET num_buff == vq.size
        this == Len(rq.vqs) + 1
        populated ==
            [vq EXCEPT !.avail =
                [i \in 1..num_buff |-> RxBufferToken(this, i, rx_size(feats, device_mtu))]]
        vqs == Append(rq.vqs, populated)
    IN  [vqs |-> vqs, is_multi |-> IF Len(vqs) > 1 THEN TRUE ELSE rq.is_multi]

\* The size of every TX buffer TxQueues::add prepares.
tx_size(feats, device_mtu) ==
    IF \/ is_feature(feats, VIRTIO_NET_F_GUEST_TSO4)
       \/ is_feature(feats, VIRTIO_NET_F_GUEST_TSO6)
       \/ is_feature(feats, VIRTIO_NET_F_GUEST_UFO)
    THEN HdrSize + TsoFrameSize
    ELSE HdrSize + device_mtu

\* Returns the queue set and the ready sequence.
TxQueues_add(tq, ready, vq, feats, device_mtu) ==
    LET vqs == Append(tq.vqs, vq)
    IN  IF Len(vqs) = 1
        THEN [send_vqs |-> [vqs |-> vqs, is_multi |-> tq.is_multi],
              ready_queue |-> ready \o [i \in 1..vq.size |->
                                 write_seq(TxBufferToken(tx_size(feats, device_mtu)),
                                           DefaultHdr)]]
        ELSE [send_vqs |-> [vqs |-> vqs, is_multi |-> TRUE], ready_queue |-> ready]

(***************************************************************************)
(* virtqueue_init, dev_spec_init and the rest of init_dev                  *)
(***************************************************************************)
\* compute_num_vqs that takes the multiqueue branch whether or not
\* VIRTIO_NET_F_MQ was negotiated.
compute_num_vqs_ignores_mq(feats, max_virtqueue_pairs) ==
    IF (max_virtqueue_pairs * 2) % 65536 >= MAX_NUM_VQ
    THEN MAX_NUM_VQ
    ELSE (max_virtqueue_pairs * 2) % 65536

\* num_vqs as virtqueue_init computes it; the u16 product wraps.
compute_num_vqs(feats, max_virtqueue_pairs) ==
    IF is_feature(feats, VIRTIO_NET_F_MQ)
    THEN IF (max_virtqueue_pairs * 2) % 65536 >= MAX_NUM_VQ
         THEN MAX_NUM_VQ
         ELSE (max_virtqueue_pairs * 2) % 65536
    ELSE 2

\* One round of the loop of virtqueue_init: queue 2i is an RX ring with
\* notifications enabled, queue 2i+1 a TX ring with notifications disabled.
install_tx(s, txq) ==
    [s EXCEPT !.send_vqs = txq.send_vqs, !.ready_queue = txq.ready_queue,
              !.oplog = @ \o << "tx_vq_new", "tx_add" >>]

add_queue_pair(s, i, device_mtu) ==
    install_tx(
        [s EXCEPT !.recv_vqs = RxQueues_add(@, enable_notifs(NewVirtq(2 * i)),
                                            s.features, device_mtu),
                  !.oplog = @ \o << "rx_vq_new", "rx_add" >>],
        TxQueues_add(s.send_vqs, s.ready_queue, disable_notifs(NewVirtq(2 * i + 1)),
                     s.features, device_mtu))

RECURSIVE add_queue_pairs(_, _, _, _)
add_queue_pairs(s, i, n, device_mtu) ==
    IF i >= n THEN s
    ELSE add_queue_pairs(add_queue_pair(s, i, device_mtu), i + 1, n, device_mtu)

virtqueue_init(s, max_virtqueue_pairs, device_mtu) ==
    add_queue_pairs([s EXCEPT !.num_vqs = compute_num_vqs(s.features, max_virtqueue_pairs)],
                    0, compute_num_vqs(s.features, max_virtqueue_pairs) \div 2, device_mtu)

\* dev_spec_init, lines 955-990: the control queue, at index num_vqs.
ctrl_queue_init(s) ==
    IF is_feature(s.features, VIRTIO_NET_F_CTRL_VQ)
    THEN [s EXCEPT !.ctrl_vq = << enable_notifs(NewVirtq(s.num_vqs)) >>,
                   !.oplog = Append(@, "ctrl_vq_new")]
    ELSE s

dev_spec_init(s, max_virtqueue_pairs, device_mtu) ==
    ctrl_queue_init(virtqueue_init(s, max_virtqueue_pairs, device_mtu))

\* derive_checksums with the Rx and Tx branches exchanged.
derive_checksums_swapped(feats, old) ==
    IF is_feature(feats, VIRTIO_NET_F_CSUM) /\ is_feature(feats, VIRTIO_NET_F_GUEST_CSUM)
    THEN [old EXCEPT !.udp = "None", !.tcp = "None"]
    ELSE IF is_feature(feats, VIRTIO_NET_F_CSUM)
    THEN [old EXCEPT !.udp = "Tx", !.tcp = "Tx"]
    ELSE IF is_feature(feats, VIRTIO_NET_F_GUEST_CSUM)
    THEN [old EXCEPT !.udp = "Rx", !.tcp = "Rx"]
    ELSE old

\* derive_checksums that keeps the old record when only VIRTIO_NET_F_CSUM
\* was negotiated.
derive_checksums_csum_only_ignored(feats, old) ==
    IF is_feature(feats, VIRTIO_NET_F_CSUM) /\ is_feature(feats, VIRTIO_NET_F_GUEST_CSUM)
    THEN [old EXCEPT !.udp = "None", !.tcp = "None"]
    ELSE IF is_feature(feats, VIRTIO_NET_F_CSUM)
    THEN old
    ELSE IF is_feature(feats, VIRTIO_NET_F_GUEST_CSUM)
    THEN [old EXCEPT !.udp = "Tx", !.tcp = "Tx"]
    ELSE old

\* init_dev, lines 881-906: the checksum record after a successful handshake.
derive_checksums(feats, old) ==
    IF is_feature(feats, VIRTIO_NET_F_CSUM) /\ is_feature(feats, VIRTIO_NET_F_GUEST_CSUM)
    THEN [old EXCEPT !.udp = "None", !.tcp = "None"]
    ELSE IF is_feature(feats, VIRTIO_NET_F_CSUM)
    THEN [old EXCEPT !.udp = "Rx", !.tcp = "Rx"]
    ELSE IF is_feature(feats, VIRTIO_NET_F_GUEST_CSUM)
    THEN [old EXCEPT !.udp = "Tx", !.tcp = "Tx"]
    ELSE old

\* derive_mtu with the bug of taking the device's MTU unconditionally.
derive_mtu_always(feats, old, device_mtu) == device_mtu

\* init_dev, lines 909-911: the MTU after a successful handshake.
derive_mtu(feats, old, device_mtu) ==
    IF is_feature(feats, VIRTIO_NET_F_MTU) THEN device_mtu ELSE old

capabilities(s, device_mtu) ==
    [s EXCEPT !.checksums = derive_checksums(s.features, @),
              !.mtu = derive_mtu(s.features, @, device_mtu)]

\* The steps of init_dev after the feature selection.  Each runs only if no
\* earlier step has returned an error (s.err).
step_features_ok(s, accept) == IF s.err.tag = "Ok" THEN features_ok_probe(s, accept) ELSE s

\* step_dev_spec_init with the bug of creating the queues although an earlier
\* step has failed.
step_dev_spec_init_always(s, max_virtqueue_pairs, device_mtu) ==
    dev_spec_init(s, max_virtqueue_pairs, device_mtu)

step_dev_spec_init(s, max_virtqueue_pairs, device_mtu) ==
    IF s.err.tag = "Ok" THEN dev_spec_init(s, max_virtqueue_pairs, device_mtu) ELSE s

step_drv_ok(s) == IF s.err.tag = "Ok" THEN drv_ok(s) ELSE s
step_capabilities(s, device_mtu) == IF s.err.tag = "Ok" THEN capabilities(s, device_mtu) ELSE s

\* init_dev with DRIVER_OK set before the device specific initialisation.
init_dev_drv_ok_early(s, d1, d2, accept, max_virtqueue_pairs, device_mtu) ==
    step_capabilities(
      step_dev_spec_init(
        step_drv_ok(
          step_features_ok(
            feature_selection(set_drv(ack_dev(reset_dev(s))), d1, d2),
            accept)),
        max_virtqueue_pairs, device_mtu),
      device_mtu)

\* VirtioNetDriver::init_dev
init_dev(s, d1, d2, accept, max_virtqueue_pairs, device_mtu) ==
    step_capabilities(
      step_drv_ok(
        step_dev_spec_init(
          step_features_ok(
            feature_selection(set_drv(ack_dev(reset_dev(s))), d1, d2),
            accept),
          max_virtqueue_pairs, device_mtu)),
      device_mtu)

\* The values get_max_virtqueue_pairs() may return.
MaxPairValues == {0, 1, 2}

\* The driver and device state init_dev works on, as a handshake state.
HandshakeState ==
    [dev_status |-> dev_status, drv_features |-> drv_features, dev_reads |-> dev_reads,
     oplog |-> oplog, err |-> NoError, features_list |-> << >>, features |-> features,
     mtu |-> mtu, checksums |-> checksums, num_vqs |-> num_vqs, ctrl_vq |-> ctrl_vq,
     recv_vqs |-> recv_vqs, send_vqs |-> send_vqs, ready_queue |-> ready_queue]

\* The state after init_dev has returned with handshake state s.
InitDevReturns(s) ==
    /\ dev_status' = s.dev_status
    /\ drv_features' = s.drv_features
    /\ dev_reads' = s.dev_reads
    /\ oplog' = s.oplog
    /\ init_result' = s.err
    /\ features' = s.features
    /\ mtu' = s.mtu
    /\ checksums' = s.checksums
    /\ num_vqs' = s.num_vqs
    /\ ctrl_vq' = s.ctrl_vq
    /\ recv_vqs' = s.recv_vqs
    /\ send_vqs' = s.send_vqs
    /\ ready_queue' = s.ready_queue

\* The call of init_dev by the code that found the device.
InitDev(d1, d2, accept, max_virtqueue_pairs) ==
    /\ init_result.tag = "none"
    /\ ~panicked
    /\ InitDevReturns(init_dev(HandshakeState, d1, d2, accept, max_virtqueue_pairs, dev_mtu))
    /\ UNCHANGED << dev_mtu, fn_call, sys, rx_chan, tx_chan, panicked, pre, tx_count, rx_last, tx_last,
                    isr_stat, ctl_last >>

\* VirtioNetDriver::get_mac_address: the device's MAC ("mac", read from the
\* device configuration) or the unreachable!() panic.
get_mac_address(feats) ==
    IF is_feature(feats, VIRTIO_NET_F_MAC) THEN "mac" ELSE "unreachable"

\* A call of get_mac_address on the initialised driver.
GetMacAddress ==
    /\ init_result.tag = "Ok"
    /\ ~panicked
    /\ ctl_last' = [op |-> "get_mac_address", status |-> {},
                    result |-> get_mac_address(features), acked |-> FALSE,
                    polling |-> ctl_last.polling]
    /\ panicked' = (get_mac_address(features) = "unreachable")
    /\ UNCHANGED << dev_status, dev_mtu, fn_call, sys, drv_features, dev_reads, oplog, init_result,
                    features, mtu, checksums, num_vqs, ctrl_vq, recv_vqs, rx_chan, send_vqs,
                    ready_queue, tx_chan, pre, tx_count, rx_last, tx_last, isr_stat >>

\* init_dev over every offer of DeviceOffers.
InitDevAnyOffer ==
    \E d1 \in DeviceOffers : \E d2 \in SecondOffers(d1) : \E accept \in BOOLEAN :
        \E p \in MaxPairValues : InitDev(d1, d2, accept, p)

\* The handshake alone, and the MAC query that follows it.
NextInit == InitDevAnyOffer \/ GetMacAddress

SpecInit == Init /\ [][NextInit]_vars

(***************************************************************************)
(* The device side of the rings and poll()                                 *)
(***************************************************************************)
\* Virtq::poll on the rings a queue set polls (every ring in multi mode, the
\* first otherwise): the tokens the device has finished with are sent to the
\* completion channel, oldest first.
RECURSIVE polled_tokens(_, _, _)
polled_tokens(vqs, is_multi, i) ==
    IF i > Len(vqs) THEN << >>
    ELSE (IF is_multi \/ i = 1 THEN vqs[i].used ELSE << >>)
         \o polled_tokens(vqs, is_multi, i + 1)

queues_poll(q, chan) ==
    [q |-> [q EXCEPT !.vqs = [i \in DOMAIN q.vqs |->
                                 IF q.is_multi \/ i = 1
                                 THEN [q.vqs[i] EXCEPT !.used = << >>]
                                 ELSE q.vqs[i]]],
     chan |-> chan \o polled_tokens(q.vqs, q.is_multi, 1)]

\* RxQueues::poll and TxQueues::poll
rx_poll(q, chan) == queues_poll(q, chan)
tx_poll(q, chan) == queues_poll(q, chan)

\* The lengths the device may report for a buffer it has filled.
RxLens == {4, 12, 72}
\* The frame lengths the stack may ask send_packet for: a short frame, a frame
\* of 1500 bytes, and a full Ethernet frame (1500 bytes and the 14 byte header).
SendLens == {60, 1500, 1514}

Live == init_result.tag = "Ok" /\ ~panicked

\* The device fills the oldest RX buffer of the first ring with len bytes whose
\* header carries num_buffers = nb, and marks it used.
DeviceRx(len, nb) ==
    /\ Live
    /\ recv_vqs.vqs[1].avail # << >>
    /\ len <= Head(recv_vqs.vqs[1].avail).cap
    /\ recv_vqs' = [recv_vqs EXCEPT
                      !.vqs[1].avail = Tail(@),
                      !.vqs[1].used = Append(@, [Head(recv_vqs.vqs[1].avail) EXCEPT
                                                    !.len = len, !.num_buffers = nb])]
    /\ rx_last' = NoReceive
    /\ UNCHANGED << dev_status, dev_mtu, fn_call, sys, drv_features, dev_reads, oplog, init_result,
                    features, mtu, checksums, num_vqs, ctrl_vq, rx_chan, send_vqs,
                    ready_queue, tx_chan, panicked, pre, tx_count, tx_last, isr_stat, ctl_last >>

\* A send buffer the device has transmitted: the driver never reads what it
\* holds, and overwrites it before the buffer is provided again.  Its content
\* is modelled as unwritten.
transmitted(tkn) == [tkn EXCEPT !.hdr = UnwrittenHdr, !.frame = NoFrame]

\* The device transmits the oldest TX buffer of the first ring and marks it used.
DeviceTx ==
    /\ Live
    /\ send_vqs.vqs[1].avail # << >>
    /\ send_vqs' = [send_vqs EXCEPT
                      !.vqs[1].avail = Tail(@),
                      !.vqs[1].used = Append(@, transmitted(Head(send_vqs.vqs[1].avail)))]
    /\ UNCHANGED << dev_status, dev_mtu, fn_call, sys, drv_features, dev_reads, oplog, init_result,
                    features, mtu, checksums, num_vqs, ctrl_vq, recv_vqs, rx_chan,
                    ready_queue, tx_chan, panicked, pre, tx_count, rx_last, tx_last, isr_stat, ctl_last >>

(***************************************************************************)
(* TxQueues::get_tkn and send_packet.  A TX state t is the record          *)
(* [q, ready, chan, count] of the queue set, the ready sequence, the       *)
(* completion channel and the bookkeeping counters.                        *)
(***************************************************************************)
\* fit_token with Ordering::Equal treated as Ordering::Less.
fit_token_skips_equal(tkn, len) ==
    IF tkn.len <= len THEN << >>
    ELSE << restr_size(tkn, len) >>

\* fit_token without the restr_size of Ordering::Greater.
fit_token_without_restr(tkn, len) ==
    IF tkn.len < len THEN << >>
    ELSE << tkn >>

\* The capacity comparison of get_tkn: << >> for a token that is dropped.
fit_token(tkn, len) ==
    IF tkn.len < len THEN << >>
    ELSE IF tkn.len = len THEN << tkn >>
    ELSE << restr_size(tkn, len) >>

\* get_tkn, lines 396-407: pop ready tokens (from the back) until one fits.
RECURSIVE take_ready(_, _)
take_ready(t, len) ==
    IF t.ready = << >> THEN [t |-> t, tkn |-> << >>, vq_index |-> 0]
    ELSE LET tkn == t.ready[Len(t.ready)]
             t1 == [t EXCEPT !.ready = SubSeq(@, 1, Len(@) - 1)]
             fit == fit_token(tkn, len)
         IN  IF fit = << >>
             THEN take_ready([t1 EXCEPT !.count.discarded = @ + 1], len)
             ELSE [t |-> t1, tkn |-> fit, vq_index |-> 0]

\* get_tkn, lines 413-425: receive completed tokens until one fits.
RECURSIVE take_completed(_, _)
take_completed(t, len) ==
    IF t.chan = << >> THEN [t |-> t, tkn |-> << >>, vq_index |-> 0]
    ELSE LET tkn == reset_tx(Head(t.chan))
             t1 == [t EXCEPT !.chan = Tail(@)]
             fit == fit_token(tkn, len)
         IN  IF fit = << >>
             THEN take_completed([t1 EXCEPT !.count.discarded = @ + 1], len)
             ELSE [t |-> t1, tkn |-> fit, vq_index |-> 0]

\* get_tkn with a poll of the ring whether or not the channel is empty.
get_tkn_always_polls(t, len, alloc_ok) ==
    LET r == take_ready(t, len)
    IN  IF r.tkn # << >> THEN r
        ELSE LET p == tx_poll(r.t.q, r.t.chan)
                 c == take_completed([r.t EXCEPT !.q = p.q, !.chan = p.chan], len)
             IN  IF c.tkn # << >> THEN c
                 ELSE IF alloc_ok
                 THEN [t |-> [c.t EXCEPT !.count.allocated = @ + 1],
                       tkn |-> << TxBufferToken(len) >>, vq_index |-> 0]
                 ELSE [t |-> c.t, tkn |-> << >>, vq_index |-> 0]

\* TxQueues::get_tkn.  alloc_ok: whether prep_buffer on the first ring
\* succeeds, should get_tkn come to call it.  The result is the TX state
\* afterwards, the token (<< >> for None) and the ring index returned with it.
get_tkn(t, len, alloc_ok) ==
    LET r == take_ready(t, len)
    IN  IF r.tkn # << >> THEN r
        ELSE LET p == IF r.t.chan = << >> THEN tx_poll(r.t.q, r.t.chan)
                      ELSE [q |-> r.t.q, chan |-> r.t.chan]
                 c == take_completed([r.t EXCEPT !.q = p.q, !.chan = p.chan], len)
             IN  IF c.tkn # << >> THEN c
                 ELSE IF alloc_ok
                 THEN [t |-> [c.t EXCEPT !.count.allocated = @ + 1],
                       tkn |-> << TxBufferToken(len) >>, vq_index |-> 0]
                 ELSE [t |-> c.t, tkn |-> << >>, vq_index |-> 0]

\* smoltcp's Checksum::tx: whether the stack computes the checksum of what it
\* sends.
tx(c) == c \in {"Both", "Tx"}

\* The frames the filler may write: ARP, TCP over IPv4 with a 20 byte header,
\* UDP over IPv6, ICMP over IPv4 with a 24 byte header.  ihl is the header
\* length field of an IPv4 header, in 32-bit words.
TxFrames ==
    { [ethertype |-> "Arp", ihl |-> 0, next_header |-> "none"],
      [ethertype |-> "Ipv4", ihl |-> 5, next_header |-> "Tcp"],
      [ethertype |-> "Ipv6", ihl |-> 0, next_header |-> "Udp"],
      [ethertype |-> "Ipv4", ihl |-> 6, next_header |-> "Icmp"] }

\* send_packet, lines 520-536: the header length of the IP packet in the
\* frame (Ipv4Packet::header_len, Ipv6Packet::header_len), 0 for other frames.
packet_header_len(frame) ==
    CASE frame.ethertype = "Ipv4" -> frame.ihl * 4
      [] frame.ethertype = "Ipv6" -> 40
      [] OTHER -> 0

\* send_packet, lines 520-536: Some(next_header) of an IP packet, None ("none")
\* for other frames.
protocol(frame) ==
    IF frame.ethertype \in {"Ipv4", "Ipv6"} THEN frame.next_header ELSE "none"

\* checksum_header with the test on the checksum capabilities inverted.
checksum_header_inverted_test(hdr, cs, frame) ==
    IF tx(cs.tcp) \/ tx(cs.udp)
    THEN [hdr EXCEPT !.flags = VIRTIO_NET_HDR_F_NEEDS_CSUM,
                     !.csum_start = (ETHERNET_HEADER_LEN + packet_header_len(frame)) % 65536,
                     !.csum_offset = CASE protocol(frame) = "Tcp" -> 16
                                       [] protocol(frame) = "Udp" -> 6
                                       [] OTHER -> 0]
    ELSE hdr

\* checksum_header with the offsets of TCP and UDP exchanged.
checksum_header_offsets_swapped(hdr, cs, frame) ==
    IF ~tx(cs.tcp) \/ ~tx(cs.udp)
    THEN [hdr EXCEPT !.flags = VIRTIO_NET_HDR_F_NEEDS_CSUM,
                     !.csum_start = (ETHERNET_HEADER_LEN + packet_header_len(frame)) % 65536,
                     !.csum_offset = CASE protocol(frame) = "Tcp" -> 6
                                       [] protocol(frame) = "Udp" -> 16
                                       [] OTHER -> 0]
    ELSE hdr

\* send_packet, lines 514-544: the header after the checksum fields have been
\* set for the frame the filler wrote; cs is self.checksums.
checksum_header(hdr, cs, frame) ==
    IF ~tx(cs.tcp) \/ ~tx(cs.udp)
    THEN [hdr EXCEPT !.flags = VIRTIO_NET_HDR_F_NEEDS_CSUM,
                     !.csum_start = (ETHERNET_HEADER_LEN + packet_header_len(frame)) % 65536,
                     !.csum_offset = CASE protocol(frame) = "Tcp" -> 16
                                       [] protocol(frame) = "Udp" -> 6
                                       [] OTHER -> 0]
    ELSE hdr

\* fill with the bug of not overwriting the header with the default first.
fill_keeps_old_header(tkn, cs, frame) ==
    [tkn EXCEPT !.hdr = checksum_header(tkn.hdr, cs, frame), !.frame = frame]

\* send_packet, lines 498-544: the header at the start of the buffer is set to
\* the default, the filler writes the frame behind it, and the checksum
\* fields are set.
fill(tkn, cs, frame) ==
    [tkn EXCEPT !.hdr = checksum_header(DefaultHdr, cs, frame), !.frame = frame]

\* send_token with the bug of filling the token but never providing it.
send_token_loses_token(g, cs, frame) ==
    [t |-> g.t, panic |-> g.tkn = << >>, filled |-> g.tkn # << >>]

\* send_token that puts the filled token back into the ready sequence.
send_token_returns_to_ready(g, cs, frame) ==
    IF g.tkn # << >>
    THEN [t |-> [g.t EXCEPT !.ready = Append(@, fill(g.tkn[1], cs, frame))],
          panic |-> FALSE, filled |-> TRUE]
    ELSE [t |-> g.t, panic |-> TRUE, filled |-> FALSE]

\* send_token with the bug of invoking the filler before looking at what
\* get_tkn returned.
send_token_fills_first(g, cs, frame) ==
    IF g.tkn # << >>
    THEN [t |-> [g.t EXCEPT !.q.vqs[1] = provide(@, fill(g.tkn[1], cs, frame))],
          panic |-> FALSE, filled |-> TRUE]
    ELSE [t |-> g.t, panic |-> TRUE, filled |-> TRUE]

\* send_packet, lines 494-553, on the result g of get_tkn: fill the token,
\* provide it and dispatch it towards the TX channel, or panic.
send_token(g, cs, frame) ==
    IF g.tkn # << >>
    THEN [t |-> [g.t EXCEPT !.q.vqs[1] = provide(@, fill(g.tkn[1], cs, frame))],
          panic |-> FALSE, filled |-> TRUE]
    ELSE [t |-> g.t, panic |-> TRUE, filled |-> FALSE]

\* VirtioNetDriver::send_packet: the TX state after the call; panic is TRUE
\* when no token could be obtained.  cs is self.checksums, frame what the
\* filler writes.
send_packet(t, len, alloc_ok, cs, frame) ==
    send_token(get_tkn(t, len + HdrSize, alloc_ok), cs, frame)

\* buf_slice that begins at the start of the buffer, over the header.
buf_slice_over_header(len) == [start |-> 0, len |-> len]

\* send_packet, lines 505-511: the slice the filler is given begins
\* size_of::<VirtioNetHdr>() bytes into the first send buffer of the token and
\* is len bytes long.
buf_slice(len) == [start |-> HdrSize, len |-> len]

\* The TX state after a call of send_packet(len, f) that left TX state r.
SendReturns(r, len) ==
    /\ send_vqs' = r.t.q
    /\ ready_queue' = r.t.ready
    /\ tx_chan' = r.t.chan
    /\ tx_count' = r.t.count
    /\ panicked' = r.panic
    /\ tx_last' = [called |-> TRUE, filled |-> r.filled,
                   slice |-> IF r.filled THEN buf_slice(len) ELSE NoSlice]

Send(len, alloc_ok, frame) ==
    /\ Live
    /\ alloc_ok => tx_count.allocated < MaxAlloc
    /\ SendReturns(send_packet([q |-> send_vqs, ready |-> ready_queue, chan |-> tx_chan,
                                 count |-> tx_count], len, alloc_ok, checksums, frame), len)
    /\ UNCHANGED << dev_status, dev_mtu, fn_call, sys, drv_features, dev_reads, oplog, init_result,
                    features, mtu, checksums, num_vqs, ctrl_vq, recv_vqs, rx_chan, pre,
                    rx_last, isr_stat, ctl_last >>

(***************************************************************************)
(* RxQueues::get_next, receive_packet and has_packet.  An RX state r is    *)
(* the record of the queue set, the channel and what the call has done.    *)
(***************************************************************************)
\* RxQueues::get_next: try the channel; if it is empty, poll and try again.
get_next(r) ==
    LET p == IF r.chan = << >> THEN rx_poll(r.q, r.chan) ELSE [q |-> r.q, chan |-> r.chan]
    IN  IF p.chan = << >>
        THEN [r |-> [r EXCEPT !.q = p.q, !.chan = p.chan], tkn |-> << >>]
        ELSE [r |-> [r EXCEPT !.q = p.q, !.chan = Tail(p.chan),
                              !.popped = Append(@, Head(p.chan).id),
                              !.frags = Append(@, Head(p.chan))],
              tkn |-> << Head(p.chan) >>]

\* reprovide with the bug of providing the token as the device left it.
reprovide_without_reset(r, tkn) ==
    [r EXCEPT !.q.vqs[tkn.vq] = provide(@, tkn),
              !.provided = Append(@, tkn.id)]

\* transfer.reset().provide().dispatch_await(recv_vqs.poll_sender, false)
reprovide(r, tkn) ==
    [r EXCEPT !.q.vqs[tkn.vq] = provide(@, reset_rx(tkn)),
              !.provided = Append(@, tkn.id)]

\* vec_data.extend_from_slice(&packet[skip..]): the bytes of the token's
\* buffer from offset skip to the length the device reported are appended to
\* the packet.
extend_from_slice(r, tkn, skip) ==
    [r EXCEPT !.data = Append(@, [id |-> tkn.id, skip |-> skip, bytes |-> tkn.len - skip])]

\* gather with the bug of stripping a header from every fragment.
RECURSIVE gather_strips_header(_, _)
gather_strips_header(r, remaining) ==
    IF remaining <= 0 THEN r
    ELSE LET g == get_next(r)
         IN  IF g.tkn = << >> THEN [g.r EXCEPT !.panic = TRUE]
             ELSE gather_strips_header(
                      reprovide(extend_from_slice(g.r, g.tkn[1], HdrSize), g.tkn[1]),
                      remaining - 1)

\* gather that stops only when the count is exactly zero, so that a header
\* with num_buffers = 0 makes it run on.
RECURSIVE gather_until_zero(_, _)
gather_until_zero(r, remaining) ==
    IF remaining = 0 THEN r
    ELSE LET g == get_next(r)
         IN  IF g.tkn = << >> THEN [g.r EXCEPT !.panic = TRUE]
             ELSE gather_until_zero(reprovide(extend_from_slice(g.r, g.tkn[1], 0), g.tkn[1]),
                                    remaining - 1)

\* receive_packet, lines 604-622: the loop over the further fragments.
RECURSIVE gather(_, _)
gather(r, remaining) ==
    IF remaining <= 0 THEN r
    ELSE LET g == get_next(r)
         IN  IF g.tkn = << >> THEN [g.r EXCEPT !.panic = TRUE]
             ELSE gather(reprovide(extend_from_slice(g.r, g.tkn[1], 0), g.tkn[1]),
                         remaining - 1)

\* The number of receive slices of a completed token: RxQueues::add prepares
\* every token with a single buffer.
recv_slices(tkn) == 1

\* receive_packet, lines 604-624: the further fragments and the result.
finish_packet(all) ==
    IF all.panic THEN all ELSE [all EXCEPT !.returned = TRUE, !.some = TRUE]

\* process_transfer with the bug of dropping a short packet together with its
\* token.
process_transfer_drops_short(g) ==
    IF g.tkn = << >> THEN [g.r EXCEPT !.returned = TRUE]
    ELSE IF recv_slices(g.tkn[1]) = 1
    THEN IF g.tkn[1].len < HdrSize
         THEN [g.r EXCEPT !.returned = TRUE]
         ELSE finish_packet(
                  gather(reprovide(extend_from_slice(g.r, g.tkn[1], HdrSize), g.tkn[1]),
                         g.tkn[1].num_buffers - 1))
    ELSE [reprovide(g.r, g.tkn[1]) EXCEPT !.returned = TRUE]

\* process_transfer with the bug of going on to the further fragments after
\* a short first fragment.
process_transfer_goes_on_after_short(g) ==
    IF g.tkn = << >> THEN [g.r EXCEPT !.returned = TRUE]
    ELSE IF recv_slices(g.tkn[1]) = 1
    THEN IF g.tkn[1].len < HdrSize
         THEN [gather(reprovide(g.r, g.tkn[1]), g.tkn[1].num_buffers - 1)
                  EXCEPT !.returned = TRUE]
         ELSE finish_packet(
                  gather(reprovide(extend_from_slice(g.r, g.tkn[1], HdrSize), g.tkn[1]),
                         g.tkn[1].num_buffers - 1))
    ELSE [reprovide(g.r, g.tkn[1]) EXCEPT !.returned = TRUE]

\* receive_packet, lines 569-637, on the result g of the first get_next.
process_transfer(g) ==
    IF g.tkn = << >> THEN [g.r EXCEPT !.returned = TRUE]
    ELSE IF recv_slices(g.tkn[1]) = 1
    THEN IF g.tkn[1].len < HdrSize
         THEN [reprovide(g.r, g.tkn[1]) EXCEPT !.returned = TRUE]
         ELSE finish_packet(
                  gather(reprovide(extend_from_slice(g.r, g.tkn[1], HdrSize), g.tkn[1]),
                         g.tkn[1].num_buffers - 1))
    ELSE [reprovide(g.r, g.tkn[1]) EXCEPT !.returned = TRUE]

\* VirtioNetDriver::receive_packet
receive_packet(r) == process_transfer(get_next(r))

\* The RX state after a call of receive_packet that left RX state r.
ReceiveReturns(r) ==
    /\ recv_vqs' = r.q
    /\ rx_chan' = r.chan
    /\ panicked' = r.panic
    /\ rx_last' = [called |-> TRUE, returned |-> r.returned, some |-> r.some,
                   data |-> r.data, popped |-> r.popped, frags |-> r.frags,
                   provided |-> r.provided, has |-> "none"]

Receive ==
    /\ Live
    /\ ReceiveReturns(receive_packet([q |-> recv_vqs, chan |-> rx_chan, popped |-> << >>,
                                      frags |-> << >>, provided |-> << >>,
                                      data |-> << >>, panic |-> FALSE,
                                      returned |-> FALSE, some |-> FALSE]))
    /\ UNCHANGED << dev_status, dev_mtu, fn_call, sys, drv_features, dev_reads, oplog, init_result,
                    features, mtu, checksums, num_vqs, ctrl_vq, send_vqs, ready_queue,
                    tx_chan, pre, tx_count, tx_last, isr_stat, ctl_last >>

\* has_packet without the poll of the RX rings.
has_packet_without_poll(q, chan) ==
    [q |-> q, chan |-> chan, result |-> chan # << >>]

\* VirtioNetDriver::has_packet: poll the RX rings; the result is whether the
\* channel is non-empty.
has_packet(q, chan) ==
    LET p == rx_poll(q, chan)
    IN  [q |-> p.q, chan |-> p.chan, result |-> p.chan # << >>]

HasPacket ==
    /\ Live
    /\ LET h == has_packet(recv_vqs, rx_chan)
       IN  /\ recv_vqs' = h.q
           /\ rx_chan' = h.chan
           /\ rx_last' = [NoReceive EXCEPT !.has = IF h.result THEN "true" ELSE "false"]
    /\ UNCHANGED << dev_status, dev_mtu, fn_call, sys, drv_features, dev_reads, oplog, init_result,
                    features, mtu, checksums, num_vqs, ctrl_vq, send_vqs, ready_queue,
                    tx_chan, panicked, pre, tx_count, tx_last, isr_stat, ctl_last >>

\* The offers the device makes in the behaviours that go on to send and
\* receive: everything desired, the minimal set, and the minimal set with one
\* or two of the optional features.
RunOffers ==
    { DesiredSet,
      MinimalSet,
      MinimalSet \cup {VIRTIO_NET_F_GUEST_CSUM},
      MinimalSet \cup {VIRTIO_NET_F_CSUM, VIRTIO_NET_F_MTU} }

\* init_dev against a device of RunOffers whose offer does not change.
RunInitDev ==
    \E d \in RunOffers : \E accept \in BOOLEAN : \E p \in MaxPairValues :
        InitDev(d, d, accept, p)
\* The frames that come in each length: ARP and ICMP frames are short, the
\* long frames carry UDP or TCP.
FramesOfLen(len) ==
    CASE len = 60 -> { f \in TxFrames : f.next_header \in {"none", "Icmp"} }
      [] len = 1500 -> { f \in TxFrames : f.next_header = "Udp" }
      [] OTHER -> { f \in TxFrames : f.next_header = "Tcp" }
SendStep ==
    \E len \in SendLens : \E alloc_ok \in BOOLEAN : \E frame \in FramesOfLen(len) :
        Send(len, alloc_ok, frame)
DeviceRxStep == \E len \in RxLens : \E nb \in 0..MaxNumBuffers : DeviceRx(len, nb)

\* The driver as constructed by the kernel: the checksum record is smoltcp's
\* default.
DefaultChecksums == [tcp |-> "Both", udp |-> "Both"]
InitRun == Init /\ checksums = DefaultChecksums

Next ==
    \/ RunInitDev
    \/ SendStep
    \/ DeviceTx
    \/ Receive
    \/ HasPacket
    \/ DeviceRxStep

Spec == InitRun /\ [][Next]_vars

\* The transmit side and the receive side share no state after init_dev:
\* send_packet reads and writes send_vqs, ready_queue and the TX channel,
\* receive_packet and has_packet recv_vqs and the RX channel.  Each side is
\* checked on its own.
NextTx == RunInitDev \/ SendStep \/ DeviceTx
SpecTx == InitRun /\ [][NextTx]_vars

\* The receive side depends on the negotiated features only through the size
\* of the RX buffers: with and without VIRTIO_NET_F_MRG_RXBUF.
RxRunOffers == { DesiredSet, MinimalSet }
RxInitDev ==
    \E d \in RxRunOffers : \E accept \in BOOLEAN : \E p \in MaxPairValues :
        InitDev(d, d, accept, p)
NextRx == RxInitDev \/ Receive \/ HasPacket \/ DeviceRxStep
SpecRx == InitRun /\ [][NextRx]_vars

(***************************************************************************)
(* handle_interrupt and the ISR status (IsrStatus) it consumes.  The ISR   *)
(* status is the set of the bits the device has raised: "queue" for a      *)
(* queue interrupt, "cfg" for a configuration change.                      *)
(***************************************************************************)
IsrBits == {"queue", "cfg"}
\* IsrStatus::is_interrupt, is_cfg_change and acknowledge
is_interrupt(isr) == "queue" \in isr
is_cfg_change(isr) == "cfg" \in isr
acknowledge(isr) == {}

\* VirtioNetDriver::handle_interrupt on ISR status isr: the value returned
\* ("none" when the call does not return), the ISR status afterwards, whether
\* acknowledge() was called, and whether the call panicked in todo!().
handle_interrupt(isr) ==
    IF is_interrupt(isr)
    THEN [result |-> "true", isr |-> acknowledge(isr), acked |-> TRUE, panic |-> FALSE]
    ELSE IF is_cfg_change(isr)
    THEN [result |-> "none", isr |-> isr, acked |-> FALSE, panic |-> TRUE]
    ELSE [result |-> "false", isr |-> acknowledge(isr), acked |-> TRUE, panic |-> FALSE]

\* The state after a call of handle_interrupt that ended as h.
HandleInterruptReturns(h) ==
    /\ isr_stat' = h.isr
    /\ panicked' = h.panic
    /\ ctl_last' = [op |-> "handle_interrupt", status |-> isr_stat, result |-> h.result,
                    acked |-> h.acked, polling |-> ctl_last.polling]

\* The interrupt handler runs, whether or not the device has raised a bit.
HandleInterrupt ==
    /\ Live
    /\ HandleInterruptReturns(handle_interrupt(isr_stat))
    /\ UNCHANGED << dev_status, dev_mtu, fn_call, sys, drv_features, dev_reads, oplog, init_result,
                    features, mtu, checksums, num_vqs, ctrl_vq, recv_vqs, rx_chan, send_vqs,
                    ready_queue, tx_chan, pre, tx_count, rx_last, tx_last >>

\* The device raises ISR status bits.
RaiseInterrupt(bits) ==
    /\ Live
    /\ bits # {}
    /\ isr_stat' = isr_stat \cup bits
    /\ UNCHANGED << dev_status, dev_mtu, fn_call, sys, drv_features, dev_reads, oplog, init_result,
                    features, mtu, checksums, num_vqs, ctrl_vq, recv_vqs, rx_chan, send_vqs,
                    ready_queue, tx_chan, panicked, pre, tx_count, rx_last, tx_last,
                    ctl_last >>
RaiseInterruptStep == \E bits \in SUBSET IsrBits : RaiseInterrupt(bits)

(***************************************************************************)
(* set_polling_mode                                                        *)
(***************************************************************************)
\* RxQueues::enable_notifs / disable_notifs: every ring if is_multi, else
\* ring 0.  The result is the queue set afterwards and whether the index
\* self.vqs[0] was out of bounds.
RxQueues_set_notifs(rq, on) ==
    IF rq.is_multi
    THEN [rq |-> [rq EXCEPT !.vqs = [i \in DOMAIN rq.vqs |->
                                        IF on THEN enable_notifs(rq.vqs[i])
                                        ELSE disable_notifs(rq.vqs[i])]],
          panic |-> FALSE]
    ELSE IF rq.vqs = << >>
    THEN [rq |-> rq, panic |-> TRUE]
    ELSE [rq |-> [rq EXCEPT !.vqs[1] = IF on THEN enable_notifs(@) ELSE disable_notifs(@)],
          panic |-> FALSE]
RxQueues_enable_notifs(rq) == RxQueues_set_notifs(rq, TRUE)
RxQueues_disable_notifs(rq) == RxQueues_set_notifs(rq, FALSE)
\* VirtioNetDriver::enable_interrupts / disable_interrupts
enable_interrupts(rq) == RxQueues_enable_notifs(rq)
disable_interrupts(rq) == RxQueues_disable_notifs(rq)

\* set_polling_mode with the two branches exchanged.
set_polling_mode_inverted(rq, value) ==
    IF value THEN enable_interrupts(rq) ELSE disable_interrupts(rq)

\* VirtioNetDriver::set_polling_mode: the receive queues afterwards.
set_polling_mode(rq, value) ==
    IF value THEN disable_interrupts(rq) ELSE enable_interrupts(rq)

SetPollingModeReturns(r, value) ==
    /\ panicked' = r.panic
    /\ recv_vqs' = r.rq
    /\ ctl_last' = [op |-> "set_polling_mode", status |-> {}, result |-> "none",
                    acked |-> FALSE, polling |-> IF value THEN "on" ELSE "off"]

SetPollingMode(value) ==
    /\ Live
    /\ SetPollingModeReturns(set_polling_mode(recv_vqs, value), value)
    /\ UNCHANGED << dev_status, dev_mtu, fn_call, sys, drv_features, dev_reads, oplog, init_result,
                    features, mtu, checksums, num_vqs, ctrl_vq, rx_chan, send_vqs,
                    ready_queue, tx_chan, pre, tx_count, rx_last, tx_last, isr_stat >>
SetPollingModeStep == \E value \in BOOLEAN : SetPollingMode(value)

\* The control path on its own: interrupts, polling mode and the MAC address.
NextIrq ==
    RunInitDev \/ RaiseInterruptStep \/ HandleInterrupt \/ GetMacAddress \/ SetPollingModeStep
SpecIrq == InitRun /\ [][NextIrq]_vars

(***************************************************************************)
(* The functions of FeatureSet, Features and VirtioNetHdr on their own.    *)
(* fn_call holds the argument and the result of the last call; the driver  *)
(* object is not touched.                                                  *)
(***************************************************************************)
driver_vars ==
    << dev_status, dev_mtu, drv_features, dev_reads, oplog, init_result, features,
       mtu, checksums, num_vqs, ctrl_vq, recv_vqs, rx_chan, send_vqs, ready_queue, tx_chan,
       panicked, pre, tx_count, rx_last, tx_last, isr_stat, ctl_last >>

\* The longest feature list handed to check_features.
MaxFeatures == 3
\* The features the lists are made of: every feature that has a requirement
\* or is one, and two that are neither.
CheckedFeatures ==
    { VIRTIO_NET_F_CSUM, VIRTIO_NET_F_GUEST_CSUM, VIRTIO_NET_F_GUEST_TSO4,
      VIRTIO_NET_F_GUEST_TSO6, VIRTIO_NET_F_GUEST_ECN, VIRTIO_NET_F_GUEST_UFO,
      VIRTIO_NET_F_HOST_TSO4, VIRTIO_NET_F_HOST_TSO6, VIRTIO_NET_F_HOST_ECN,
      VIRTIO_NET_F_HOST_UFO, VIRTIO_NET_F_CTRL_VQ, VIRTIO_NET_F_CTRL_RX,
      VIRTIO_NET_F_CTRL_VLAN, VIRTIO_NET_F_GUEST_ANNOUNCE, VIRTIO_NET_F_MQ,
      VIRTIO_NET_F_CTRL_MAC_ADDR, VIRTIO_NET_F_RSC_EXT, VIRTIO_NET_F_MAC,
      VIRTIO_F_VERSION_1 }

\* check_features on a list of features.
CheckFeaturesCall(list) ==
    [op |-> "check_features", arg |-> list, ret |-> check_features(list)]

\* One more feature is pushed onto the list (as init_dev builds its list) and
\* the list is checked.
PushAndCheck(feature) ==
    /\ fn_call.op = "check_features"
    /\ Len(fn_call.arg) < MaxFeatures
    /\ fn_call' = CheckFeaturesCall(Append(fn_call.arg, feature))
    /\ UNCHANGED << driver_vars, sys >>

InitCheck == InitDriver /\ checksums = DefaultChecksums /\ fn_call = CheckFeaturesCall(<< >>)
NextCheck == \E feature \in CheckedFeatures : PushAndCheck(feature)
SpecCheck == InitCheck /\ [][NextCheck]_vars

\* Bit positions of the 64-bit feature word that no enumerator of Features has.
UnknownBits == {4, 6, 63}
\* The bits the feature words of the round trip are made of.
CodecBits ==
    { VIRTIO_NET_F_CSUM, VIRTIO_NET_F_MAC, VIRTIO_NET_F_CTRL_VQ, VIRTIO_F_VERSION_1,
      VIRTIO_NET_F_STANDBY } \cup UnknownBits

\* The list Features::from_set(s) returns, Some or None: None contributes no
\* feature.  The features are ORed into FeatureSet::new(0).
from_set_then_set_features(s) == set_features({}, from_set(s))

RoundTripCall(s) ==
    [op |-> "from_set", arg |-> s, ret |-> from_set_then_set_features(s)]

\* The round trip on the feature word that differs from the last in one bit.
FlipAndRoundTrip(bit) ==
    /\ fn_call.op = "from_set"
    /\ fn_call' = RoundTripCall(IF bit \in fn_call.arg THEN fn_call.arg \ {bit}
                                ELSE fn_call.arg \cup {bit})
    /\ UNCHANGED << driver_vars, sys >>

InitCodec == InitDriver /\ checksums = DefaultChecksums /\ fn_call = RoundTripCall({})
NextCodec == \E bit \in CodecBits : FlipAndRoundTrip(bit)
SpecCodec == InitCodec /\ [][NextCodec]_vars

\* The bytes of a u16 in memory (the targets of the kernel are little-endian)
\* and the u16 two bytes in memory stand for.
u16_bytes(x) == << x % 256, (x \div 256) % 256 >>
u16_from(b, i) == b[i] + 256 * b[i + 1]

\* as_bytes with csum_start and csum_offset in each other's place.
as_bytes_checksum_fields_swapped(hdr) ==
    << hdr.flags, hdr.gso_type >> \o u16_bytes(hdr.hdr_len) \o u16_bytes(hdr.gso_size)
    \o u16_bytes(hdr.csum_offset) \o u16_bytes(hdr.csum_start) \o u16_bytes(hdr.num_buffers)

\* The bytes of a VirtioNetHdr (repr(C), AsBytes): the fields in declaration
\* order, the two u8 enums first, no padding.
as_bytes(hdr) ==
    << hdr.flags, hdr.gso_type >> \o u16_bytes(hdr.hdr_len) \o u16_bytes(hdr.gso_size)
    \o u16_bytes(hdr.csum_start) \o u16_bytes(hdr.csum_offset) \o u16_bytes(hdr.num_buffers)

\* receive_packet's transmute::<[u8; HEADER_SIZE], VirtioNetHdr> of the first
\* HEADER_SIZE bytes of a fragment.
transmute(packet) ==
    [flags |-> packet[1], gso_type |-> packet[2], hdr_len |-> u16_from(packet, 3),
     gso_size |-> u16_from(packet, 5), csum_start |-> u16_from(packet, 7),
     csum_offset |-> u16_from(packet, 9), num_buffers |-> u16_from(packet, 11)]

\* The values of NetHdrFlag and NetHdrGSO, and the u16 values the round trip
\* is tried with.
NetHdrFlags == {VIRTIO_NET_HDR_F_NONE, VIRTIO_NET_HDR_F_NEEDS_CSUM, 2, 4}
NetHdrGSOs == {VIRTIO_NET_HDR_GSO_NONE, 1, 3, 4, 128}
U16Values == {0, 258, 65535}
HdrFieldValues(field) ==
    CASE field = "flags" -> NetHdrFlags
      [] field = "gso_type" -> NetHdrGSOs
      [] OTHER -> U16Values

\* The payload that follows the header in the fragment.
PayloadByte == 170
HdrCall(hdr) ==
    [op |-> "hdr", arg |-> hdr,
     ret |-> [bytes |-> as_bytes(hdr),
              header |-> transmute(SubSeq(as_bytes(hdr) \o << PayloadByte >>, 1, HdrSize))]]

\* One field of the header is set, the header is written and read back.
SetFieldAndRoundTrip(field, value) ==
    /\ fn_call.op = "hdr"
    /\ fn_call' = HdrCall([fn_call.arg EXCEPT ![field] = value])
    /\ UNCHANGED << driver_vars, sys >>

InitHdr == InitDriver /\ checksums = DefaultChecksums /\ fn_call = HdrCall(DefaultHdr)
NextHdr ==
    \E field \in DOMAIN DefaultHdr : \E value \in HdrFieldValues(field) :
        SetFieldAndRoundTrip(field, value)
SpecHdr == InitHdr /\ [][NextHdr]_vars

(***************************************************************************)
(* Properties of the handshake (checked under SpecInit)                    *)
(***************************************************************************)
InitOk == init_result.tag = "Ok"
InitFailed == init_result.tag \notin {"none", "Ok"}
\* The device answered every read of its features with the same word.
ConstantOffer == \A i \in 1..Len(dev_reads) : dev_reads[i] = dev_reads[1]
\* init_dev re-read the status after FEATURES_OK and found the bit cleared.
ProbeRejected == "check_features" \in Range(oplog) /\ "FEATURES_OK" \notin dev_status
IsHandshakeStep(op) == op # "dev_features"
Before(a, b) ==
    \E i, j \in 1..Len(oplog) : i < j /\ oplog[i] = a /\ oplog[j] = b

\* C4: a successful init_dev performs reset, ACKNOWLEDGE, DRIVER, the write of
\* the driver features, FEATURES_OK, the re-read of the status, the creation
\* and population of the RX and TX queues and DRIVER_OK, in this order; and
\* whenever DRIVER_OK has been set, the re-read found FEATURES_OK set and the
\* RX and TX queues were created before it.
C4_HandshakeOrder ==
    /\ InitOk =>
          SelectSeq(oplog, IsHandshakeStep) =
             << "reset_dev", "ack_dev", "set_drv", "set_drv_features", "features_ok",
                "check_features", "rx_vq_new", "rx_add", "tx_vq_new", "tx_add", "drv_ok" >>
    /\ "DRIVER_OK" \in dev_status =>
          /\ "FEATURES_OK" \in dev_status
          /\ Before("check_features", "drv_ok")
          /\ Before("rx_add", "drv_ok")
          /\ Before("tx_add", "drv_ok")
          /\ recv_vqs.vqs # << >> /\ send_vqs.vqs # << >>

\* C4 witness: a successful init_dev that went through the fallback.
C4_Witness == InitOk /\ Len(dev_reads) = 2 /\ "DRIVER_OK" \in dev_status

\* C5: when init_dev returns an error, DRIVER_OK is not set, no RX or TX queue
\* exists or holds a token, and the MTU and the checksum record are as before.
C5_ErrorLeavesDriverInert ==
    InitFailed =>
        /\ "DRIVER_OK" \notin dev_status
        /\ recv_vqs.vqs = << >> /\ send_vqs.vqs = << >> /\ ready_queue = << >>
        /\ mtu = pre.mtu
        /\ checksums = pre.checksums

\* C5 witness: init_dev failed at the FEATURES_OK probe, after a feature set
\* with checksum and MTU features had been written.
C5_Witness ==
    /\ InitFailed /\ ProbeRejected /\ Len(drv_features) = 1
    /\ {VIRTIO_NET_F_MTU, VIRTIO_NET_F_CSUM} \subseteq drv_features[1]
    /\ dev_mtu # pre.mtu

\* C6: for a device whose (unchanging) offer D contains VERSION_1 and NET_MAC
\* and that does not reject FEATURES_OK, init_dev succeeds, and the set written
\* to the driver-features field and recorded as negotiated is desired \cap D.
C6_NegotiatedIsIntersection ==
    ( /\ init_result.tag # "none"
      /\ ConstantOffer
      /\ MinimalSet \subseteq dev_reads[1]
      /\ ~ProbeRejected )
    => /\ InitOk
       /\ drv_features = << DesiredSet \cap dev_reads[1] >>
       /\ features = DesiredSet \cap dev_reads[1]

\* C6 witness: a successful fallback with an offer that lacks desired bits and
\* has a bit the driver does not ask for.
C6_Witness ==
    /\ InitOk /\ ConstantOffer /\ Len(dev_reads) = 2
    /\ VIRTIO_NET_F_MQ \in dev_reads[1]
    /\ VIRTIO_NET_F_MRG_RXBUF \notin dev_reads[1]
    /\ features # MinimalSet

\* C7: when the device's offer lacks VERSION_1 or NET_MAC, init_dev fails with
\* FailFeatureNeg(dev_id), writes nothing to the driver-features field and
\* never sets FEATURES_OK.
C7_MinimalSetRequired ==
    ( init_result.tag # "none" /\ ~(MinimalSet \subseteq dev_reads[1]) )
    => /\ init_result = FailFeatureNeg(DevId)
       /\ drv_features = << >>
       /\ "features_ok" \notin Range(oplog)
       /\ "FEATURES_OK" \notin dev_status

\* C7 witness: the offer has VERSION_1 and other desired bits, but no NET_MAC.
C7_Witness ==
    /\ init_result.tag = "FailFeatureNeg"
    /\ VIRTIO_F_VERSION_1 \in dev_reads[1]
    /\ VIRTIO_NET_F_MTU \in dev_reads[1]
    /\ VIRTIO_NET_F_MAC \notin dev_reads[1]

\* C8: when the status re-read after FEATURES_OK no longer has the bit,
\* init_dev fails with FailFeatureNeg(dev_id), dev_cfg.features is as before
\* the call (empty) and no virtqueue is created.
C8_RejectedProbe ==
    ProbeRejected =>
        /\ init_result = FailFeatureNeg(DevId)
        /\ features = {}
        /\ recv_vqs.vqs = << >> /\ send_vqs.vqs = << >> /\ ctrl_vq = << >>
        /\ num_vqs = 0

\* C8 witness: the probe was rejected after the full desired set was written.
C8_Witness == ProbeRejected /\ drv_features = << DesiredSet >>

\* C9: after a successful init_dev the TCP and UDP checksum capabilities are
\* None when NET_CSUM and NET_GUEST_CSUM are negotiated, Rx when only NET_CSUM
\* is, Tx when only NET_GUEST_CSUM is, and as before init when neither is.
C9_ChecksumTable ==
    InitOk =>
        LET csum == VIRTIO_NET_F_CSUM \in features
            guest == VIRTIO_NET_F_GUEST_CSUM \in features
        IN  /\ (csum /\ guest) => (checksums.tcp = "None" /\ checksums.udp = "None")
            /\ (csum /\ ~guest) => (checksums.tcp = "Rx" /\ checksums.udp = "Rx")
            /\ (~csum /\ guest) => (checksums.tcp = "Tx" /\ checksums.udp = "Tx")
            /\ (~csum /\ ~guest) => checksums = pre.checksums

\* C9 witness: only NET_CSUM negotiated, from a record that was not Rx before.
C9_Witness ==
    /\ InitOk
    /\ VIRTIO_NET_F_CSUM \in features /\ VIRTIO_NET_F_GUEST_CSUM \notin features
    /\ pre.checksums.tcp = "Tx" /\ checksums.tcp = "Rx"

\* C10: after a successful init_dev the driver's MTU is the device's
\* advertised MTU if NET_MTU is negotiated, and the MTU held before otherwise.
C10_Mtu ==
    InitOk => mtu = (IF VIRTIO_NET_F_MTU \in features THEN dev_mtu ELSE pre.mtu)

\* C10 witness: NET_MTU not negotiated although the device advertises another
\* MTU than the driver holds.
C10_Witness ==
    InitOk /\ VIRTIO_NET_F_MTU \notin features /\ dev_mtu # pre.mtu /\ mtu = pre.mtu


(***************************************************************************)
(* Properties of the transmit side (checked under SpecTx)                  *)
(***************************************************************************)
\* The tokens on the rings of a queue set: provided to the device and not yet
\* routed to the completion channel.
RECURSIVE in_flight(_, _)
in_flight(vqs, i) ==
    IF i > Len(vqs) THEN 0
    ELSE Len(vqs[i].avail) + Len(vqs[i].used) + in_flight(vqs, i + 1)

TxTokens == Len(ready_queue) + in_flight(send_vqs.vqs, 1) + Len(tx_chan)
RxTokens == in_flight(recv_vqs.vqs, 1) + Len(rx_chan)

\* C1 as stated: after initialisation and any sends (that returned) and device
\* completions, the number of TX tokens in the ready sequence, in flight and
\* in the channel equals the TX ring size.
C1_TxTokensEqualRingSize ==
    (InitOk /\ ~panicked) => TxTokens = send_vqs.vqs[1].size

\* C1, amended: after initialisation and any sends and device completions, the
\* number of TX tokens in the ready sequence, in flight and in the channel
\* equals the TX ring size, less the tokens get_tkn has discarded as too small,
\* plus the tokens get_tkn has allocated on demand.
C1_TxTokenConservation ==
    InitOk => TxTokens = send_vqs.vqs[1].size - tx_count.discarded + tx_count.allocated

\* C1 witness: a send found every prepared token too small, discarded them all
\* and allocated one token, which the device has since completed.
C1_Witness ==
    /\ InitOk /\ ~panicked
    /\ tx_count.discarded = send_vqs.vqs[1].size
    /\ tx_count.allocated = 1
    /\ send_vqs.vqs[1].used # << >>

(***************************************************************************)
(* Properties of the receive side (checked under SpecRx)                   *)
(***************************************************************************)
\* C2: after initialisation and any receive_packet and has_packet calls (and
\* any completions by the device), the number of RX tokens in flight and in
\* the channel equals the RX ring size.
C2_RxTokensEqualRingSize ==
    InitOk => RxTokens = recv_vqs.vqs[1].size

\* C2 witness: receive_packet has returned a packet of two buffers and every
\* token of the ring is provided to the device again.
C2_Witness ==
    /\ InitOk /\ rx_last.returned /\ rx_last.some
    /\ Len(rx_last.popped) = 2
    /\ Len(recv_vqs.vqs[1].avail) = recv_vqs.vqs[1].size

\* The token with the given id is on a ring, provided to the device, in its
\* reset state.
ProvidedReset(id) ==
    \E v \in DOMAIN recv_vqs.vqs : \E i \in DOMAIN recv_vqs.vqs[v].avail :
        /\ recv_vqs.vqs[v].avail[i].id = id
        /\ recv_vqs.vqs[v].avail[i].len = 0
        /\ recv_vqs.vqs[v].avail[i].num_buffers = 0

\* C3: when receive_packet returns (a packet or nothing), every RX token it
\* popped from the channel in that call has been reset and provided again.
C3_PoppedAreReprovided ==
    (rx_last.called /\ rx_last.returned) =>
        /\ rx_last.provided = rx_last.popped
        /\ \A id \in Range(rx_last.popped) : ProvidedReset(id)

\* C3 witness: receive_packet returned nothing after popping and dropping a
\* packet shorter than the header.
C3_Witness ==
    /\ rx_last.called /\ rx_last.returned /\ ~rx_last.some
    /\ Len(rx_last.popped) = 1

(***************************************************************************)
(* Properties of get_mac_address (checked under SpecInit)                  *)
(***************************************************************************)
\* C11: after every successful init_dev VIRTIO_NET_F_MAC is in the negotiated
\* feature set, so get_mac_address returns the device's MAC and its
\* unreachable!() branch is never taken.
C11_MacNegotiated ==
    InitOk =>
        /\ is_feature(features, VIRTIO_NET_F_MAC)
        /\ ~panicked
        /\ ctl_last.op = "get_mac_address" => ctl_last.result = "mac"

\* C11 witness: get_mac_address was called after an init that went through the
\* fallback to a reduced feature set.
C11_Witness ==
    /\ InitOk /\ Len(dev_reads) = 2
    /\ ctl_last.op = "get_mac_address"
    /\ features # DesiredSet

(***************************************************************************)
(* Properties of the TX header (checked under SpecTx)                      *)
(***************************************************************************)
\* The TX tokens send_packet has handed to a ring and the device has not yet
\* transmitted.
TxHanded ==
    UNION { Range(send_vqs.vqs[v].avail) : v \in DOMAIN send_vqs.vqs }

\* C12: every TX buffer handed to the ring begins with a header in which
\* gso_type = NONE, hdr_len = 0, gso_size = 0, num_buffers = 0 and flags is
\* NONE or NEEDS_CSUM, whether the token came from the ready sequence, from
\* the completion channel or from an allocation on demand.
C12_TxHeaderWellFormed ==
    \A tkn \in TxHanded :
        /\ tkn.hdr.gso_type = 0
        /\ tkn.hdr.hdr_len = 0
        /\ tkn.hdr.gso_size = 0
        /\ tkn.hdr.num_buffers = 0
        /\ tkn.hdr.flags \in {0, 1}

\* C12 witness: the ring holds a token that was allocated on demand for a full
\* frame and has since been recycled for a shorter one, next to a token of the
\* size TxQueues::add prepares.
C12_Witness ==
    /\ InitOk
    /\ \E tkn \in TxHanded : tkn.cap = 1514 + HdrSize /\ tkn.len < tkn.cap
    /\ \E tkn \in TxHanded : tkn.cap = tx_size(features, dev_mtu)

\* C13 as stated: after an init in which both VIRTIO_NET_F_CSUM and
\* VIRTIO_NET_F_GUEST_CSUM were negotiated, a send of an ARP frame hands the
\* ring an all-zero header, NEEDS_CSUM not set.
C13_ArpHeaderIsZero ==
    ( /\ InitOk
      /\ is_feature(features, VIRTIO_NET_F_CSUM)
      /\ is_feature(features, VIRTIO_NET_F_GUEST_CSUM) )
    => \A tkn \in TxHanded : tkn.frame.ethertype = "Arp" => tkn.hdr = DefaultHdr

C15_ChecksumFields ==
    \A tkn \in TxHanded :
        IF tkn.hdr.flags = 1
        THEN /\ tkn.hdr.csum_start =
                  14 + (IF tkn.frame.ethertype = "Ipv4" THEN 4 * tkn.frame.ihl
                        ELSE IF tkn.frame.ethertype = "Ipv6" THEN 40 ELSE 0)
             /\ tkn.hdr.csum_offset =
                  (IF tkn.frame.ethertype \notin {"Ipv4", "Ipv6"} THEN 0
                   ELSE IF tkn.frame.next_header = "Tcp" THEN 16
                   ELSE IF tkn.frame.next_header = "Udp" THEN 6 ELSE 0)
        ELSE tkn.hdr.csum_start = 0 /\ tkn.hdr.csum_offset = 0

\* C15 witness: the ring holds a UDP/IPv6 frame and an ARP frame, both with
\* NEEDS_CSUM.
C15_Witness ==
    /\ \E tkn \in TxHanded :
          tkn.hdr.flags = 1 /\ tkn.frame.ethertype = "Ipv6" /\ tkn.hdr.csum_offset = 6
    /\ \E tkn \in TxHanded :
          tkn.hdr.flags = 1 /\ tkn.frame.ethertype = "Arp" /\ tkn.hdr.csum_start = 14

\* The TX state send_packet starts from.
TxState == [q |-> send_vqs, ready |-> ready_queue, chan |-> tx_chan, count |-> tx_count]

\* C16: a send_packet for which get_tkn delivers no token for len + 12 bytes
\* panics; the filler is not invoked and nothing is handed to the ring.
C16_NoTokenIsFatal ==
    [][ \A len \in SendLens : \A alloc_ok \in BOOLEAN : \A frame \in TxFrames :
          ( /\ Send(len, alloc_ok, frame)
            /\ get_tkn(TxState, len + HdrSize, alloc_ok).tkn = << >> )
          => /\ panicked'
             /\ ~tx_last'.filled
             /\ \A v \in DOMAIN send_vqs.vqs :
                   send_vqs'.vqs[v].avail = send_vqs.vqs[v].avail ]_vars

\* C16 witness: a send_packet has panicked after get_tkn discarded the ready
\* tokens and the allocation on demand failed.
C16_Witness ==
    /\ panicked /\ tx_last.called /\ ~tx_last.filled
    /\ tx_count.discarded > 0 /\ tx_count.allocated = 0

(***************************************************************************)
(* Properties of receive_packet (checked under SpecRx)                     *)
(***************************************************************************)
\* C17: if the first completed fragment receive_packet pops is shorter than
\* the 12 byte header, receive_packet returns nothing, that token is reset and
\* provided to the RX ring again, and no further completion is consumed.
C17_ShortFragmentDropped ==
    ( /\ rx_last.called
      /\ rx_last.frags # << >>
      /\ rx_last.frags[1].len < 12 )
    => /\ rx_last.returned /\ ~rx_last.some /\ ~panicked
       /\ rx_last.data = << >>
       /\ Len(rx_last.frags) = 1
       /\ rx_last.provided = << rx_last.frags[1].id >>
       /\ ProvidedReset(rx_last.frags[1].id)

\* C17 witness: a short first fragment that announced a second buffer, with
\* another completion waiting in the channel.
C17_Witness ==
    /\ rx_last.called /\ rx_last.frags # << >>
    /\ rx_last.frags[1].len < 12
    /\ rx_last.frags[1].num_buffers = 2
    /\ rx_chan # << >>

\* The completions a receive_packet call can pop, in the order it pops them:
\* what is in the channel, then what poll() routes to it from the ring.
RxCompletions == rx_chan \o recv_vqs.vqs[1].used

\* C18: when the header of the first fragment carries num_buffers = k > 1 and
\* at least k - 1 further completions are available, receive_packet consumes
\* exactly k completions in channel order, returns the first fragment's bytes
\* past its 12 byte header followed by all the bytes of the next k - 1
\* fragments in that order, and provides exactly these k tokens again.
C18_MultiBufferPacket ==
    [][ ( /\ rx_last'.called
          /\ init_result.tag = "Ok"
          /\ RxCompletions # << >>
          /\ RxCompletions[1].len >= 12
          /\ RxCompletions[1].num_buffers > 1
          /\ Len(RxCompletions) >= RxCompletions[1].num_buffers )
        => /\ rx_last'.returned /\ rx_last'.some /\ ~panicked'
           /\ rx_last'.frags = SubSeq(RxCompletions, 1, RxCompletions[1].num_buffers)
           /\ rx_last'.data =
                 [i \in 1..RxCompletions[1].num_buffers |->
                     [id |-> RxCompletions[i].id,
                      skip |-> IF i = 1 THEN 12 ELSE 0,
                      bytes |-> IF i = 1 THEN RxCompletions[1].len - 12
                                ELSE RxCompletions[i].len]]
           /\ rx_last'.provided =
                 [i \in 1..RxCompletions[1].num_buffers |-> RxCompletions[i].id]
           /\ RxTokens' = RxTokens ]_vars

\* C18 witness: a packet of two fragments has been returned, the second
\* fragment appended with all its 72 bytes.
C18_Witness ==
    /\ rx_last.called /\ rx_last.returned /\ rx_last.some
    /\ Len(rx_last.frags) = 2
    /\ rx_last.frags[1].num_buffers = 2
    /\ Len(rx_last.data) = 2 /\ rx_last.data[2].skip = 0 /\ rx_last.data[2].bytes = 72

\* C19 as stated: once the device is live receive_packet never aborts, whatever
\* num_buffers the first fragment carries: it returns a packet or nothing and
\* every buffer it consumed is provided to the ring again.
C19_ReceiveNeverAborts ==
    (InitOk /\ rx_last.called) =>
        /\ ~panicked
        /\ rx_last.returned
        /\ rx_last.provided = rx_last.popped

(***************************************************************************)
(* Properties of handle_interrupt (checked under SpecIrq)                  *)
(***************************************************************************)
\* C20 as stated: every call of handle_interrupt acknowledges the ISR,
\* whatever the ISR status reports: a queue interrupt, a configuration
\* change, both, or neither.
C20_AlwaysAcknowledged ==
    ctl_last.op = "handle_interrupt" => (ctl_last.acked /\ ~panicked)

\* C21 as stated: handle_interrupt returns true if and only if the ISR status
\* reports a queue interrupt; a call where only a configuration change is
\* reported returns false (and the driver goes on as before).
C21_TrueIffQueueInterrupt ==
    ctl_last.op = "handle_interrupt" =>
        /\ ctl_last.result \in {"true", "false"}
        /\ (ctl_last.result = "true") <=> is_interrupt(ctl_last.status)
        /\ (ctl_last.status = {"cfg"}) => (ctl_last.result = "false" /\ ~panicked)

(***************************************************************************)
(* Properties of set_polling_mode (checked under SpecIrq)                  *)
(***************************************************************************)
\* C22: after any sequence of set_polling_mode calls, with other calls in
\* between, the notifications of every RX ring are disabled if the last call
\* was set_polling_mode(true) and enabled if it was set_polling_mode(false);
\* the notifications of every TX ring stay disabled, as set at creation.
C22_PollingModeSetsRxNotifs ==
    InitOk =>
        /\ ctl_last.polling = "on" =>
               \A i \in DOMAIN recv_vqs.vqs : ~recv_vqs.vqs[i].notifs
        /\ ctl_last.polling = "off" =>
               \A i \in DOMAIN recv_vqs.vqs : recv_vqs.vqs[i].notifs
        /\ \A i \in DOMAIN send_vqs.vqs : ~send_vqs.vqs[i].notifs

\* C22 witness: polling mode was switched on, an interrupt was handled
\* afterwards, and the RX ring's notifications are still disabled.
C22_Witness ==
    /\ InitOk
    /\ ctl_last.polling = "on"
    /\ ctl_last.op = "handle_interrupt"
    /\ Len(recv_vqs.vqs) = 1
    /\ ~recv_vqs.vqs[1].notifs
    /\ Len(send_vqs.vqs) = 1

(***************************************************************************)
(* Properties of has_packet (checked under SpecRx)                         *)
(***************************************************************************)
\* C23: has_packet polls the RX ring (every completed token of the ring is
\* moved to the channel, behind those already there) and returns true iff the
\* channel then holds a token; it takes no token from the channel and provides
\* none to the ring; a receive_packet that directly follows a true result
\* pops a completion.
C23_HasPacket ==
    [][ /\ rx_last'.has # "none" =>
              /\ rx_chan' = rx_chan \o recv_vqs.vqs[1].used
              /\ recv_vqs'.vqs[1].used = << >>
              /\ recv_vqs'.vqs[1].avail = recv_vqs.vqs[1].avail
              /\ (rx_last'.has = "true") <=> (rx_chan' # << >>)
        /\ (rx_last.has = "true" /\ rx_last'.called) =>
              /\ rx_last'.popped # << >>
              /\ rx_last'.popped[1] = Head(rx_chan).id
      ]_vars

\* C23 witness: has_packet returned true with two completions in the channel
\* and no buffer left on the ring.
C23_Witness ==
    /\ rx_last.has = "true"
    /\ Len(rx_chan) = 2
    /\ recv_vqs.vqs[1].avail = << >>

(***************************************************************************)
(* Properties of check_features (checked under SpecCheck)                  *)
(***************************************************************************)
\* The requirements of Virtio specification v1.1 - 5.1.3.1: a feature of the
\* first set needs one of the second.
FeatureRequirements ==
    { << {VIRTIO_NET_F_GUEST_TSO4, VIRTIO_NET_F_GUEST_TSO6, VIRTIO_NET_F_GUEST_UFO},
         {VIRTIO_NET_F_GUEST_CSUM} >>,
      << {VIRTIO_NET_F_HOST_TSO4, VIRTIO_NET_F_HOST_TSO6, VIRTIO_NET_F_HOST_UFO},
         {VIRTIO_NET_F_CSUM} >>,
      << {VIRTIO_NET_F_GUEST_ECN}, {VIRTIO_NET_F_GUEST_TSO4, VIRTIO_NET_F_GUEST_TSO6} >>,
      << {VIRTIO_NET_F_HOST_ECN, VIRTIO_NET_F_RSC_EXT},
         {VIRTIO_NET_F_HOST_TSO4, VIRTIO_NET_F_HOST_TSO6} >>,
      << {VIRTIO_NET_F_CTRL_RX, VIRTIO_NET_F_CTRL_VLAN, VIRTIO_NET_F_GUEST_ANNOUNCE,
          VIRTIO_NET_F_MQ, VIRTIO_NET_F_CTRL_MAC_ADDR},
         {VIRTIO_NET_F_CTRL_VQ} >> }
RequirementsHold(bits) ==
    \A r \in FeatureRequirements : (r[1] \cap bits # {}) => (r[2] \cap bits # {})

\* C24: the result of check_features is a function of the set of bits of the
\* list, whatever the order and the duplicates: Ok iff every requirement
\* holds in that set, else FeatureRequirementsNotMet carrying the set.
C24_CheckFeatures ==
    fn_call.op = "check_features" =>
        fn_call.ret = IF RequirementsHold(Range(fn_call.arg))
                      THEN NoError
                      ELSE FeatureRequirementsNotMet(Range(fn_call.arg))

\* C24 witness: a list with a duplicate in which GUEST_TSO4 comes before the
\* GUEST_CSUM it needs is accepted.
C24_Witness ==
    /\ fn_call.op = "check_features"
    /\ fn_call.arg = << VIRTIO_NET_F_GUEST_TSO4, VIRTIO_NET_F_GUEST_CSUM,
                        VIRTIO_NET_F_GUEST_TSO4 >>
    /\ fn_call.ret = NoError

(***************************************************************************)
(* Properties of from_set / set_features (checked under SpecCodec)         *)
(***************************************************************************)
\* C25 as stated: for every feature word s, ORing the features of
\* from_set(s) into an empty FeatureSet yields s again.
C25_RoundTripIsLossless ==
    fn_call.op = "from_set" => fn_call.ret = fn_call.arg

\* C25 amended: the round trip yields s without the bits that no enumerator
\* of Features has; it yields s again exactly when s has no such bit.
C25_RoundTripKeepsKnownBits ==
    fn_call.op = "from_set" =>
        /\ fn_call.ret = fn_call.arg \cap Range(FeaturesInOrder)
        /\ (fn_call.ret = fn_call.arg) <=> (fn_call.arg \subseteq Range(FeaturesInOrder))

\* C25 witness: a word with enumerated bits and a bit that is not comes back
\* with the enumerated bits only.
C25_Witness ==
    /\ fn_call.op = "from_set"
    /\ fn_call.arg = {VIRTIO_NET_F_MAC, VIRTIO_F_VERSION_1} \cup UnknownBits
    /\ fn_call.ret = {VIRTIO_NET_F_MAC, VIRTIO_F_VERSION_1}

(***************************************************************************)
(* Properties of the header codec (checked under SpecHdr)                  *)
(***************************************************************************)
\* C26: the header encodes to exactly 12 bytes, in the field order flags,
\* gso_type, hdr_len, gso_size, csum_start, csum_offset, num_buffers, and
\* decoding the first 12 bytes of the fragment yields the original fields.
C26_HeaderRoundTrip ==
    fn_call.op = "hdr" =>
        /\ Len(fn_call.ret.bytes) = 12
        /\ \A i \in 1..12 : fn_call.ret.bytes[i] \in 0..255
        /\ fn_call.ret.bytes[1] = fn_call.arg.flags
        /\ fn_call.ret.bytes[2] = fn_call.arg.gso_type
        /\ SubSeq(fn_call.ret.bytes, 3, 4) = u16_bytes(fn_call.arg.hdr_len)
        /\ SubSeq(fn_call.ret.bytes, 5, 6) = u16_bytes(fn_call.arg.gso_size)
        /\ SubSeq(fn_call.ret.bytes, 7, 8) = u16_bytes(fn_call.arg.csum_start)
        /\ SubSeq(fn_call.ret.bytes, 9, 10) = u16_bytes(fn_call.arg.csum_offset)
        /\ SubSeq(fn_call.ret.bytes, 11, 12) = u16_bytes(fn_call.arg.num_buffers)
        /\ fn_call.ret.header = fn_call.arg

\* C26 witness: a header whose fields all differ has made the round trip.
C26_Witness ==
    /\ fn_call.op = "hdr"
    /\ fn_call.arg = [flags |-> VIRTIO_NET_HDR_F_NEEDS_CSUM, gso_type |-> 3, hdr_len |-> 258,
                      gso_size |-> 65535, csum_start |-> 65535, csum_offset |-> 258,
                      num_buffers |-> 0]
    /\ fn_call.ret.header = fn_call.arg

(***************************************************************************)
(* Properties of get_tkn (checked under SpecTx)                            *)
(***************************************************************************)
SetMax(S) == CHOOSE x \in S : \A y \in S : y <= x
SetMin(S) == CHOOSE x \in S : \A y \in S : x <= y

\* The positions of the ready sequence whose token has a send capacity of at
\* least required_len.
FitsInReady(required_len) ==
    { i \in DOMAIN ready_queue : ready_queue[i].cap >= required_len }
\* The completion channel as get_tkn drains it: polled first if empty.
PolledChan == IF tx_chan = << >> THEN send_vqs.vqs[1].used ELSE tx_chan
FitsInChan(required_len) ==
    { i \in DOMAIN PolledChan : PolledChan[i].cap >= required_len }
\* The token a step has handed to the first TX ring, if it has.
Handed ==
    IF /\ Len(send_vqs'.vqs[1].avail) = Len(send_vqs.vqs[1].avail) + 1
       /\ SubSeq(send_vqs'.vqs[1].avail, 1, Len(send_vqs.vqs[1].avail)) = send_vqs.vqs[1].avail
    THEN << send_vqs'.vqs[1].avail[Len(send_vqs'.vqs[1].avail)] >>
    ELSE << >>

\* C27: get_tkn pops the ready sequence from its end: tokens of smaller
\* capacity than required_len are removed and not returned, the first token
\* of equal capacity is returned as it is, the first of greater capacity
\* restricted to required_len; the same holds for the tokens drained from the
\* completion channel, oldest first, after their reset.
C27_CapacityComparison ==
    [][ \A len \in SendLens : \A alloc_ok \in BOOLEAN : \A frame \in TxFrames :
          Send(len, alloc_ok, frame) =>
            /\ FitsInReady(len + HdrSize) # {} =>
                  /\ ready_queue' =
                        SubSeq(ready_queue, 1, SetMax(FitsInReady(len + HdrSize)) - 1)
                  /\ Handed # << >>
                  /\ Handed[1].cap = ready_queue[SetMax(FitsInReady(len + HdrSize))].cap
                  /\ Handed[1].len = len + HdrSize
            /\ (FitsInReady(len + HdrSize) = {} /\ FitsInChan(len + HdrSize) # {}) =>
                  /\ ready_queue' = << >>
                  /\ tx_chan' = SubSeq(PolledChan, SetMin(FitsInChan(len + HdrSize)) + 1,
                                       Len(PolledChan))
                  /\ Handed # << >>
                  /\ Handed[1].cap = PolledChan[SetMin(FitsInChan(len + HdrSize))].cap
                  /\ Handed[1].len = len + HdrSize
            /\ tx_count'.discarded - tx_count.discarded =
                  IF FitsInReady(len + HdrSize) # {}
                  THEN Len(ready_queue) - SetMax(FitsInReady(len + HdrSize))
                  ELSE Len(ready_queue)
                       + (IF FitsInChan(len + HdrSize) # {}
                          THEN SetMin(FitsInChan(len + HdrSize)) - 1
                          ELSE Len(PolledChan)) ]_vars

\* C27 witness: tokens have been skipped as too small, and a token of greater
\* capacity has been handed to the ring restricted to the required length.
C27_Witness ==
    /\ tx_count.discarded > 0
    /\ \E tkn \in TxHanded : tkn.cap > tkn.len

\* C28: get_tkn takes from the ready sequence first and then touches neither
\* ring nor channel; otherwise it polls the ring exactly if the channel is
\* empty and drains the channel; it allocates only if the ready sequence is
\* empty and the channel drained without a fitting token, and it returns
\* nothing (send_packet panics) only if that allocation fails too.
C28_SourceOrder ==
    [][ \A len \in SendLens : \A alloc_ok \in BOOLEAN : \A frame \in TxFrames :
          Send(len, alloc_ok, frame) =>
            /\ FitsInReady(len + HdrSize) # {} =>
                  /\ tx_chan' = tx_chan
                  /\ send_vqs'.vqs[1].used = send_vqs.vqs[1].used
                  /\ tx_count'.allocated = tx_count.allocated
            /\ FitsInReady(len + HdrSize) = {} =>
                  /\ send_vqs'.vqs[1].used =
                        IF tx_chan = << >> THEN << >> ELSE send_vqs.vqs[1].used
                  /\ FitsInChan(len + HdrSize) # {} =>
                        tx_count'.allocated = tx_count.allocated
                  /\ FitsInChan(len + HdrSize) = {} =>
                        /\ ready_queue' = << >>
                        /\ tx_chan' = << >>
                        /\ alloc_ok =>
                              /\ tx_count'.allocated = tx_count.allocated + 1
                              /\ Handed # << >>
                              /\ Handed[1].cap = len + HdrSize
                        /\ ~alloc_ok =>
                              /\ tx_count'.allocated = tx_count.allocated
                              /\ Handed = << >>
            /\ panicked' <=>
                  /\ ~alloc_ok
                  /\ FitsInReady(len + HdrSize) = {}
                  /\ FitsInChan(len + HdrSize) = {} ]_vars

\* C28 witness: the ready sequence is used up, a completed token is waiting in
\* the channel, and a token has been allocated on demand because the
\* channel held no fitting one.
C28_Witness ==
    /\ InitOk /\ ~panicked
    /\ ready_queue = << >>
    /\ tx_chan # << >>
    /\ tx_count.allocated > 0
    /\ send_vqs.vqs[1].used # << >>

\* C29: the token get_tkn returns for required_len = len + 12 comes with ring
\* index 0 and has a send capacity of exactly len + 12 bytes: a send_packet
\* that returns hands one buffer of len + 12 bytes to the first TX ring.
C29_ExactLength ==
    [][ \A len \in SendLens : \A alloc_ok \in BOOLEAN : \A frame \in TxFrames :
          (Send(len, alloc_ok, frame) /\ ~panicked') =>
            /\ get_tkn(TxState, len + HdrSize, alloc_ok).vq_index = 0
            /\ Handed # << >>
            /\ Handed[1].len = len + HdrSize
            /\ send_vqs'.vqs[1].index = 1
            /\ Len(send_vqs'.vqs) = 1 ]_vars

\* C29 witness: buffers of 72 bytes from a larger prepared token, from a token
\* of the channel, or from an allocation are on the ring.
C29_Witness ==
    /\ InitOk /\ ~panicked
    /\ Len(send_vqs.vqs[1].avail) >= 2
    /\ \E tkn \in TxHanded : tkn.len = 60 + HdrSize /\ tkn.cap > tkn.len
    /\ \E tkn \in TxHanded : tkn.len = 60 + HdrSize /\ tkn.cap = tkn.len

\* C30: once init_dev has returned, no step makes the ready sequence grow or
\* change: what is left of it is always the front of what it was, so once
\* empty it stays empty, and completed tokens come back through the
\* completion channel only.
C30_ReadyOnlyShrinks ==
    [][ InitOk =>
          /\ Len(ready_queue') <= Len(ready_queue)
          /\ \A i \in DOMAIN ready_queue' : ready_queue'[i] = ready_queue[i] ]_vars

\* C30 witness: with the ready sequence used up, a send has polled the ring,
\* reused a completed token of the channel and left another there.
C30_Witness ==
    /\ InitOk /\ ~panicked
    /\ ready_queue = << >>
    /\ tx_count.allocated = 0 /\ tx_count.discarded = 0
    /\ tx_chan # << >>
    /\ send_vqs.vqs[1].avail # << >>

(***************************************************************************)
(* NEEDS_CSUM and the negotiated checksum features (checked under SpecTx)  *)
(***************************************************************************)
\* C31: with the checksum record Both/Both before init_dev, after a successful
\* init_dev every header handed to the ring has flags = NEEDS_CSUM exactly
\* when VIRTIO_NET_F_CSUM is in the negotiated set, in which case the
\* capabilities are None or Rx; with only VIRTIO_NET_F_GUEST_CSUM or neither
\* negotiated the flags are NONE for every frame.
C31_NeedsCsumIffCsumNegotiated ==
    InitOk =>
        /\ is_feature(features, VIRTIO_NET_F_CSUM)
              => /\ checksums.tcp \in {"None", "Rx"}
                 /\ checksums.udp = checksums.tcp
        /\ \A tkn \in TxHanded :
              /\ tkn.hdr.flags = VIRTIO_NET_HDR_F_NEEDS_CSUM
                    <=> is_feature(features, VIRTIO_NET_F_CSUM)
              /\ ~is_feature(features, VIRTIO_NET_F_CSUM)
                    => tkn.hdr.flags = VIRTIO_NET_HDR_F_NONE

\* C31 witness: a frame is on the ring with NEEDS_CSUM after an init that
\* negotiated VIRTIO_NET_F_CSUM without VIRTIO_NET_F_GUEST_CSUM.
C31_Witness ==
    /\ InitOk
    /\ is_feature(features, VIRTIO_NET_F_CSUM)
    /\ ~is_feature(features, VIRTIO_NET_F_GUEST_CSUM)
    /\ checksums = [tcp |-> "Rx", udp |-> "Rx"]
    /\ \E tkn \in TxHanded : tkn.hdr.flags = VIRTIO_NET_HDR_F_NEEDS_CSUM

(***************************************************************************)
(* The header and the frame in a buffer (checked under SpecBuf)            *)
(***************************************************************************)
\* send_packet and receive_packet on one driver: frames are sent while
\* packets arrive.
NextBuf == RunInitDev \/ SendStep \/ Receive \/ DeviceRxStep
SpecBuf == InitRun /\ [][NextBuf]_vars

\* The token the last send_packet handed to the first TX ring (no buffer is
\* transmitted under SpecBuf, so that it is the newest of the ring).
LastHanded == send_vqs.vqs[1].avail[Len(send_vqs.vqs[1].avail)]

\* C32: a send_packet(len, f) that invoked the filler gave it the len bytes
\* from offset 12 of the buffer of the token it handed to the ring, which end
\* where the buffer's restricted length ends, and the 12 bytes before them
\* hold the default header with nothing but the checksum fields set; the
\* packet receive_packet returns begins with the bytes of its first fragment
\* from offset 12 to the length the device reported.
C32_HeaderOutsideFrame ==
    /\ tx_last.filled =>
          /\ tx_last.slice.start = 12
          /\ tx_last.slice.len \in SendLens
          /\ send_vqs.vqs[1].avail # << >>
          /\ tx_last.slice.start + tx_last.slice.len = LastHanded.len
          /\ LastHanded.len <= LastHanded.cap
          /\ LastHanded.frame \in FramesOfLen(tx_last.slice.len)
          /\ LastHanded.hdr = checksum_header(DefaultHdr, checksums, LastHanded.frame)
          /\ [LastHanded.hdr EXCEPT !.flags = 0, !.csum_start = 0, !.csum_offset = 0]
                = DefaultHdr
    /\ (rx_last.called /\ rx_last.some) =>
          /\ rx_last.data # << >>
          /\ rx_last.data[1].id = rx_last.frags[1].id
          /\ rx_last.data[1].skip = 12
          /\ rx_last.data[1].bytes = rx_last.frags[1].len - 12

\* C32 witness: a frame of 60 bytes has been written behind the header of a
\* TX buffer, and a packet of 60 bytes has been returned from an RX buffer
\* of 72 bytes.
C32_Witness ==
    /\ InitOk /\ ~panicked
    /\ tx_last.filled /\ tx_last.slice = [start |-> HdrSize, len |-> 60]
    /\ \E tkn \in TxHanded : tkn.len = 60 + HdrSize /\ tkn.frame.ethertype = "Arp"
    /\ rx_last.some /\ Len(rx_last.data) = 1
    /\ rx_last.data[1].skip = HdrSize /\ rx_last.data[1].bytes = 60

(***************************************************************************)
(* num_buffers = 0 (checked under SpecRx)                                  *)
(***************************************************************************)
\* C33: a first fragment of at least 12 bytes whose header carries
\* num_buffers = 0 is handled as one with num_buffers = 1: receive_packet
\* consumes that one completion only, returns its bytes past the header and
\* provides that one token again.
C33_ZeroBuffersIsOne ==
    ( /\ rx_last.called
      /\ rx_last.frags # << >>
      /\ rx_last.frags[1].len >= 12
      /\ rx_last.frags[1].num_buffers \in {0, 1} )
    => /\ rx_last.returned /\ rx_last.some /\ ~panicked
       /\ Len(rx_last.frags) = 1
       /\ rx_last.popped = << rx_last.frags[1].id >>
       /\ rx_last.data = << [id |-> rx_last.frags[1].id, skip |-> 12,
                             bytes |-> rx_last.frags[1].len - 12] >>
       /\ rx_last.provided = << rx_last.frags[1].id >>
       /\ ProvidedReset(rx_last.frags[1].id)

\* C33 witness: a packet has been returned from a first fragment of 72 bytes
\* with num_buffers = 0 while another completion waited in the channel.
C33_Witness ==
    /\ rx_last.called /\ rx_last.some
    /\ rx_last.frags # << >>
    /\ rx_last.frags[1].num_buffers = 0
    /\ rx_last.frags[1].len = 72
    /\ rx_chan # << >>

(***************************************************************************)
(* IncompatibleFeatureSets as a result of init_dev (checked under SpecInit)*)
(***************************************************************************)
\* C34: when every read of the device features returned the same word,
\* init_dev does not return IncompatibleFeatureSets, and if that word does not
\* cover the desired set the result is FailFeatureNeg or Ok, with either
\* nothing or exactly desired \cap device written to the driver-features
\* field, and Ok only after that write; an IncompatibleFeatureSets that
\* init_dev returns comes from the second negotiation, whose read of the
\* device features did not cover the reduced set desired \cap first read.
C34_IncompatibleOnlyFromSecondAttempt ==
    /\ (init_result.tag # "none" /\ ConstantOffer) =>
          /\ init_result.tag # "IncompatibleFeatureSets"
          /\ ~(DesiredSet \subseteq dev_reads[1]) =>
                /\ init_result.tag \in {"FailFeatureNeg", "Ok"}
                /\ drv_features \in { << >>, << DesiredSet \cap dev_reads[1] >> }
                /\ MinimalSet \subseteq dev_reads[1] =>
                      /\ Len(dev_reads) = 2
                      /\ drv_features = << DesiredSet \cap dev_reads[1] >>
                /\ InitOk => features = DesiredSet \cap dev_reads[1]
    /\ init_result.tag = "IncompatibleFeatureSets" =>
          /\ Len(dev_reads) = 2
          /\ MinimalSet \subseteq dev_reads[1]
          /\ ~(DesiredSet \subseteq dev_reads[1])
          /\ ~((DesiredSet \cap dev_reads[1]) \subseteq dev_reads[2])
          /\ init_result = IncompatibleFeatureSets(DesiredSet \cap dev_reads[1], dev_reads[2])
          /\ drv_features = << >>

\* C34 witness: an unchanging offer without three of the desired bits led
\* through the fallback to a write the device then rejected.
C34_Witness ==
    /\ ConstantOffer /\ Len(dev_reads) = 2
    /\ dev_reads[1] \cap DesiredSet = DesiredSet \ FixedOfferBits
    /\ init_result = FailFeatureNeg(DevId)
    /\ drv_features = << DesiredSet \ FixedOfferBits >>

(***************************************************************************)
(* virtqueue_init as a function of max_virtqueue_pairs (SpecVqs)           *)
(***************************************************************************)
\* The bits of max_virtqueue_pairs, a u16 of the device configuration, that
\* the calls vary.
PairBits == {0, 1, 2, 14, 15}

RECURSIVE pow2(_)
pow2(n) == IF n = 0 THEN 1 ELSE 2 * pow2(n - 1)

\* virtqueue_init, lines 1005-1014: what the computation of num_vqs can do.
\* get_max_virtqueue_pairs() * 2 is a u16 product: when it overflows, a build
\* with overflow checks panics and a build without them goes on with the
\* wrapped product.
num_vqs_outcomes(feats, max_virtqueue_pairs) ==
    IF is_feature(feats, VIRTIO_NET_F_MQ) /\ max_virtqueue_pairs * 2 >= 65536
    THEN { [panic |-> TRUE, num_vqs |-> 0],
           [panic |-> FALSE, num_vqs |-> compute_num_vqs(feats, max_virtqueue_pairs)] }
    ELSE { [panic |-> FALSE, num_vqs |-> compute_num_vqs(feats, max_virtqueue_pairs)] }

\* The number of rounds of the loop `for i in 0..(self.num_vqs / 2)`: the
\* RX/TX pairs virtqueue_init creates.
queue_pairs(n) == n \div 2

\* virtqueue_init with the negotiated set feats and the device's
\* max_virtqueue_pairs, with outcome out.
VirtqueueInitCall(feats, max_virtqueue_pairs, out) ==
    [op |-> "virtqueue_init", arg |-> << feats, max_virtqueue_pairs >>, ret |-> << out >>]

\* The same negotiated set, max_virtqueue_pairs differing in one bit.
FlipPairBit(bit) ==
    /\ fn_call.op = "virtqueue_init"
    /\ \E out \in num_vqs_outcomes(
                    fn_call.arg[1],
                    IF (fn_call.arg[2] \div pow2(bit)) % 2 = 1
                    THEN fn_call.arg[2] - pow2(bit) ELSE fn_call.arg[2] + pow2(bit)) :
          fn_call' = VirtqueueInitCall(
                         fn_call.arg[1],
                         IF (fn_call.arg[2] \div pow2(bit)) % 2 = 1
                         THEN fn_call.arg[2] - pow2(bit) ELSE fn_call.arg[2] + pow2(bit),
                         out)
    /\ UNCHANGED << driver_vars, sys >>

\* The same max_virtqueue_pairs, with VIRTIO_NET_F_MQ or VIRTIO_NET_F_MTU
\* added to or taken from the negotiated set.
FlipNegotiated(feature) ==
    /\ fn_call.op = "virtqueue_init"
    /\ \E out \in num_vqs_outcomes(
                    IF feature \in fn_call.arg[1] THEN fn_call.arg[1] \ {feature}
                    ELSE fn_call.arg[1] \cup {feature},
                    fn_call.arg[2]) :
          fn_call' = VirtqueueInitCall(
                         IF feature \in fn_call.arg[1] THEN fn_call.arg[1] \ {feature}
                         ELSE fn_call.arg[1] \cup {feature},
                         fn_call.arg[2], out)
    /\ UNCHANGED << driver_vars, sys >>

InitVqs ==
    /\ InitDriver /\ checksums = DefaultChecksums
    /\ fn_call = VirtqueueInitCall(MinimalSet, 1, [panic |-> FALSE, num_vqs |-> 2])
NextVqs ==
    \/ \E bit \in PairBits : FlipPairBit(bit)
    \/ \E feature \in {VIRTIO_NET_F_MQ, VIRTIO_NET_F_MTU} : FlipNegotiated(feature)
SpecVqs == InitVqs /\ [][NextVqs]_vars

C36_OneQueuePair ==
    InitOk =>
        /\ features \subseteq DesiredSet
        /\ ~is_feature(features, VIRTIO_NET_F_MQ)
        /\ ~is_feature(features, VIRTIO_NET_F_CTRL_VQ)
        /\ num_vqs = 2
        /\ Len(recv_vqs.vqs) = 1
        /\ recv_vqs.vqs[1].index = 0
        /\ recv_vqs.vqs[1].notifs
        /\ Len(recv_vqs.vqs[1].avail) = recv_vqs.vqs[1].size
        /\ recv_vqs.vqs[1].size > 0
        /\ Len(send_vqs.vqs) = 1
        /\ send_vqs.vqs[1].index = 1
        /\ ~send_vqs.vqs[1].notifs
        /\ ~recv_vqs.is_multi /\ ~send_vqs.is_multi
        /\ ctrl_vq = << >>

\* C36 witness: init_dev succeeded with a device that offers
\* VIRTIO_NET_F_MQ besides the whole desired set.
C36_Witness ==
    /\ InitOk
    /\ VIRTIO_NET_F_MQ \in dev_reads[1]
    /\ features = DesiredSet
    /\ Len(recv_vqs.vqs) = 1 /\ Len(send_vqs.vqs) = 1

(***************************************************************************)
(* The size of the RX buffers (checked under SpecInit)                     *)
(***************************************************************************)
\* C37 as stated: after init_dev every RX buffer RxQueues::add has posted has
\* the size MTU + 12, where MTU is the driver's MTU (what get_mtu() returns
\* after init_dev), unless VIRTIO_NET_F_MRG_RXBUF is negotiated: then the size
\* is 1514 + 12 rounded up to the cache-line padding unit.
C37_RxBufferIsDriverMtuPlusHeader ==
    InitOk =>
        \A v \in DOMAIN recv_vqs.vqs : \A i \in DOMAIN recv_vqs.vqs[v].avail :
            recv_vqs.vqs[v].avail[i].cap =
                (IF is_feature(features, VIRTIO_NET_F_MRG_RXBUF)
                 THEN align_up(1514 + 12, CachePaddedSize)
                 ELSE mtu + 12)

(***************************************************************************)
(* sys_socket (syscalls/net.rs).  Each caller is a thread; a step is what  *)
(* a thread does between two points at which another thread can run: the  *)
(* test of the arguments, NIC.lock(), the test of the NIC state with       *)
(* FD_COUNTER.fetch_add, the creation of the handle with drop(guard), and  *)
(* insert_object with the return.  Both socket features (tcp, udp) are     *)
(* compiled in.                                                            *)
(***************************************************************************)
\* The number of calls of sys_socket in one behaviour.
MaxCalls == 3
AF_INET == 0
AF_INET6 == 1
SOCK_DGRAM == 2
SOCK_STREAM == 1
\* crate::errno::EINVAL
EINVAL == 22
\* The arguments of the calls: the valid values and one invalid value each.
Domains == {AF_INET, AF_INET6, 2}
Types == {SOCK_STREAM, SOCK_DGRAM, 3}
Protocols == {0, 6}

\* __sys_socket, lines 256-258: the test that makes the call return -EINVAL
\* at once.
invalid_arguments(domain, type_, proto) ==
    \/ (domain # AF_INET /\ domain # AF_INET6)
    \/ (type_ # SOCK_STREAM /\ type_ # SOCK_DGRAM)
    \/ proto # 0

\* fetch_add that returns the counter and leaves it as it is.
fetch_add_without_add(counter, n) == [prev |-> counter, next |-> counter]

\* AtomicI32::fetch_add(n, SeqCst): one indivisible step that returns the
\* previous value; the sum wraps in 32 bits (beyond 2147483647 it goes on
\* from -2147483648).
fetch_add(counter, n) ==
    [prev |-> counter,
     next |-> IF counter > 2147483647 - n
              THEN (counter - 2147483647) + (n - 2147483647) - 2
              ELSE counter + n]

\* insert_object(fd, obj): the object map with the new descriptor, or an
\* error if the map has that descriptor already.
insert_object(objects, fd) ==
    IF fd \in objects THEN [objects |-> objects, err |-> TRUE]
    ELSE [objects |-> objects \cup {fd}, err |-> FALSE]

\* The call of thread t returns ret.
returns(k, t, ret) ==
    [k EXCEPT !.pc[t] = "idle", !.call[t].done = TRUE, !.call[t].ret = ret,
              !.returned = Append(@, ret)]

\* __sys_socket, lines 250-263: the call begins; with invalid arguments it
\* returns -EINVAL, otherwise the thread goes on to lock NIC.
enter_socket(k, t, domain, type_, proto) ==
    IF invalid_arguments(domain, type_, proto)
    THEN returns([k EXCEPT !.calls = @ + 1,
                           !.call[t] = [NoSocketCall EXCEPT !.domain = domain,
                                           !.type_ = type_, !.protocol = proto]],
                 t, -EINVAL)
    ELSE [k EXCEPT !.calls = @ + 1, !.pc[t] = "lock",
                   !.call[t] = [NoSocketCall EXCEPT !.domain = domain, !.type_ = type_,
                                                    !.protocol = proto]]

\* __sys_socket, lines 264-265 and 290-292, with the result f of
\* FD_COUNTER.fetch_add(1): with the NIC initialised the call takes the next
\* descriptor number, otherwise it returns -EINVAL and the guard is dropped.
take_fd(k, t, f) ==
    IF k.NIC = "Initialized"
    THEN [k EXCEPT !.FD_COUNTER = f.next, !.fd[t] = f.prev, !.pc[t] = "create",
                   !.call[t].nic = k.NIC, !.call[t].took = TRUE]
    ELSE returns([k EXCEPT !.guard = 0, !.call[t].nic = k.NIC], t, -EINVAL)

\* __sys_socket, lines 268-269 and 280-281: the handle is created and the
\* guard dropped.
drop_guard(k, t) == [k EXCEPT !.guard = 0, !.pc[t] = "insert"]

\* __sys_socket, lines 270-274 and 282-286, with the result ins of
\* insert_object: the socket is entered into the object map under the
\* descriptor, which is returned; expect() panics on an error.
insert_and_return(k, t, ins) ==
    IF ins.err THEN [k EXCEPT !.panic = TRUE]
    ELSE returns([k EXCEPT !.objects = ins.objects], t, k.fd[t])

SysSocket(t, domain, type_, proto) ==
    /\ ~sys.panic
    /\ sys.pc[t] = "idle"
    /\ sys.calls < MaxCalls
    /\ sys' = enter_socket(sys, t, domain, type_, proto)
    /\ UNCHANGED << driver_vars, fn_call >>

\* NIC.lock(): the thread waits until the lock is free.
LockNic(t) ==
    /\ ~sys.panic
    /\ sys.pc[t] = "lock"
    /\ sys.guard = 0
    /\ sys' = [sys EXCEPT !.guard = t, !.pc[t] = "locked"]
    /\ UNCHANGED << driver_vars, fn_call >>

TakeFd(t) ==
    /\ ~sys.panic
    /\ sys.pc[t] = "locked"
    /\ sys' = take_fd(sys, t, fetch_add(sys.FD_COUNTER, 1))
    /\ UNCHANGED << driver_vars, fn_call >>

DropGuard(t) ==
    /\ ~sys.panic
    /\ sys.pc[t] = "create"
    /\ sys' = drop_guard(sys, t)
    /\ UNCHANGED << driver_vars, fn_call >>

InsertAndReturn(t) ==
    /\ ~sys.panic
    /\ sys.pc[t] = "insert"
    /\ sys' = insert_and_return(sys, t, insert_object(sys.objects, sys.fd[t]))
    /\ UNCHANGED << driver_vars, fn_call >>

\* The kernel's network initialisation stores NetworkState::Initialized in
\* NIC, under the lock.
InitNic ==
    /\ sys.NIC = "Uninitialized"
    /\ sys.guard = 0
    /\ sys' = [sys EXCEPT !.NIC = "Initialized"]
    /\ UNCHANGED << driver_vars, fn_call >>

InitSocket == InitDriver /\ checksums = DefaultChecksums /\ fn_call = NoFn
NextSocket ==
    \/ \E t \in Threads : \E domain \in Domains : \E type_ \in Types :
          \E proto \in Protocols : SysSocket(t, domain, type_, proto)
    \/ \E t \in Threads : LockNic(t)
    \/ \E t \in Threads : TakeFd(t)
    \/ \E t \in Threads : DropGuard(t)
    \/ \E t \in Threads : InsertAndReturn(t)
    \/ InitNic
SpecSocket == InitSocket /\ [][NextSocket]_vars

\* C38: a call of sys_socket whose domain is neither AF_INET nor AF_INET6,
\* whose type is neither SOCK_STREAM nor SOCK_DGRAM, whose protocol is not 0,
\* or that finds the NIC not initialised returns -EINVAL and has not taken a
\* number from FD_COUNTER; every other call takes one; and the descriptors
\* the successful calls have returned, in whatever order the threads ran,
\* differ from each other.
C38_SocketDescriptorsAreFresh ==
    /\ ~sys.panic
    /\ \A t \in Threads :
          /\ ( /\ sys.call[t].done
               /\ \/ (sys.call[t].domain # 0 /\ sys.call[t].domain # 1)
                  \/ (sys.call[t].type_ # 1 /\ sys.call[t].type_ # 2)
                  \/ sys.call[t].protocol # 0
                  \/ sys.call[t].nic = "Uninitialized" )
              => (sys.call[t].ret = -22 /\ ~sys.call[t].took)
          /\ (sys.call[t].done /\ sys.call[t].ret >= 0) =>
                (sys.call[t].took /\ sys.call[t].ret \in sys.objects)
    /\ \A i, j \in DOMAIN sys.returned :
          (i < j /\ sys.returned[j] >= 0) => sys.returned[i] # sys.returned[j]
    /\ sys.FD_COUNTER =
          FirstFd + Cardinality({ i \in DOMAIN sys.returned : sys.returned[i] >= 0 })
                  + Cardinality({ t \in Threads : sys.pc[t] \in {"create", "insert"} })

\* C38 witness: two calls ran at the same time and the one that took its
\* number later returned first; a third call found invalid arguments.
C38_Witness ==
    /\ Len(sys.returned) = 3
    /\ sys.returned[1] = FirstFd + 1
    /\ sys.returned[2] = FirstFd
    /\ sys.returned[3] = -EINVAL
    /\ sys.FD_COUNTER = FirstFd + 2

(***************************************************************************)
(* sys_getsockname and sys_getpeername (syscalls/net.rs) as functions of   *)
(* the object the descriptor names and of the two pointer arguments        *)
(* (SpecNames)                                                             *)
(***************************************************************************)
\* size_of::<sockaddr_in>() and size_of::<sockaddr_in6>()
SockaddrInSize == 16
SockaddrIn6Size == 28
\* crate::errno::EBADF, the error of get_object for a descriptor without an
\* object
EBADF == 9

\* Endpoints (smoltcp IpEndpoint): an address of one family and a port.
Endpoints ==
    { [family |-> "Ipv4", ip |-> << 10, 0, 5, 3 >>, port |-> 80],
      [family |-> "Ipv4", ip |-> << 10, 0, 5, 1 >>, port |-> 443],
      [family |-> "Ipv6", ip |-> << 254, 128, 1 >>, port |-> 80],
      [family |-> "Ipv6", ip |-> << 254, 128, 2 >>, port |-> 8080] }
\* What get_object(fd) yields: no object, or a socket with its local and its
\* remote endpoint, each << >> for None or << endpoint >> for Some.
NoObject == [kind |-> "none", local |-> << >>, peer |-> << >>]
Sockets ==
    { [kind |-> "socket", local |-> l, peer |-> r] :
        l \in { << >> } \cup { << e >> : e \in Endpoints },
        r \in { << >> } \cup { << e >> : e \in Endpoints } }
\* The values of *addrlen, and NullLen for a null pointer.
NullLen == -1
AddrLens == {NullLen, 0, 15, 16, 27, 28, 128}

\* ObjectInterface::getsockname and ::getpeername of a socket.
getsockname(obj) == obj.local
getpeername(obj) == obj.peer

\* u16::to_be on a little-endian target: the two bytes exchanged.
to_be(x) == (x % 256) * 256 + (x \div 256)

\* impl From<IpEndpoint> for sockaddr_in
sockaddr_in_from(endpoint) ==
    [sin_len |-> SockaddrInSize, sin_family |-> AF_INET, sin_port |-> to_be(endpoint.port),
     sin_addr |-> endpoint.ip, sin_zero |-> 0]

\* impl From<IpEndpoint> for sockaddr_in6
sockaddr_in6_from(endpoint) ==
    [sin6_family |-> AF_INET6, sin6_port |-> to_be(endpoint.port), sin6_addr |-> endpoint.ip,
     sin6_flowinfo |-> 0, sin6_scope_id |-> 0]

\* The result of a call that writes nothing: *addr and *addrlen stay as the
\* caller passed them.
Unwritten(ret, addrlen) == [ret |-> ret, addr |-> << >>, addrlen |-> addrlen]

\* __sys_getsockname, lines 386-423
sys_getsockname(obj, addr_null, addrlen) ==
    IF obj.kind = "none" THEN Unwritten(-EBADF, addrlen)
    ELSE IF getsockname(obj) = << >> THEN Unwritten(0, addrlen)
    ELSE IF addr_null \/ addrlen = NullLen THEN Unwritten(-EINVAL, addrlen)
    ELSE IF getsockname(obj)[1].family = "Ipv4"
    THEN IF addrlen >= SockaddrInSize
         THEN [ret |-> 0, addr |-> << sockaddr_in_from(getsockname(obj)[1]) >>,
               addrlen |-> SockaddrInSize]
         ELSE Unwritten(-EINVAL, addrlen)
    ELSE IF addrlen >= SockaddrIn6Size
         THEN [ret |-> 0, addr |-> << sockaddr_in6_from(getsockname(obj)[1]) >>,
               addrlen |-> SockaddrIn6Size]
         ELSE Unwritten(-EINVAL, addrlen)

\* sys_getpeername that asks the socket for its remote endpoint.
sys_getpeername_of_peer(obj, addr_null, addrlen) ==
    IF obj.kind = "none" THEN Unwritten(-EBADF, addrlen)
    ELSE IF getpeername(obj) = << >> THEN Unwritten(0, addrlen)
    ELSE IF addr_null \/ addrlen = NullLen THEN Unwritten(-EINVAL, addrlen)
    ELSE IF getpeername(obj)[1].family = "Ipv4"
    THEN IF addrlen >= SockaddrInSize
         THEN [ret |-> 0, addr |-> << sockaddr_in_from(getpeername(obj)[1]) >>,
               addrlen |-> SockaddrInSize]
         ELSE Unwritten(-EINVAL, addrlen)
    ELSE IF addrlen >= SockaddrIn6Size
         THEN [ret |-> 0, addr |-> << sockaddr_in6_from(getpeername(obj)[1]) >>,
               addrlen |-> SockaddrIn6Size]
         ELSE Unwritten(-EINVAL, addrlen)

\* __sys_getpeername, lines 504-541: the endpoint is that of
\* (*v).getsockname().
sys_getpeername(obj, addr_null, addrlen) ==
    IF obj.kind = "none" THEN Unwritten(-EBADF, addrlen)
    ELSE IF getsockname(obj) = << >> THEN Unwritten(0, addrlen)
    ELSE IF addr_null \/ addrlen = NullLen THEN Unwritten(-EINVAL, addrlen)
    ELSE IF getsockname(obj)[1].family = "Ipv4"
    THEN IF addrlen >= SockaddrInSize
         THEN [ret |-> 0, addr |-> << sockaddr_in_from(getsockname(obj)[1]) >>,
               addrlen |-> SockaddrInSize]
         ELSE Unwritten(-EINVAL, addrlen)
    ELSE IF addrlen >= SockaddrIn6Size
         THEN [ret |-> 0, addr |-> << sockaddr_in6_from(getsockname(obj)[1]) >>,
               addrlen |-> SockaddrIn6Size]
         ELSE Unwritten(-EINVAL, addrlen)

\* Both calls with the same object and arguments.
NamesCall(obj, addr_null, addrlen) ==
    [op |-> "getpeername", arg |-> << obj, addr_null, addrlen >>,
     ret |-> << sys_getpeername(obj, addr_null, addrlen),
                sys_getsockname(obj, addr_null, addrlen) >>]

\* The calls with another object, another addr pointer or another *addrlen.
CallOnObject(obj) ==
    /\ fn_call.op = "getpeername"
    /\ fn_call' = NamesCall(obj, fn_call.arg[2], fn_call.arg[3])
    /\ UNCHANGED << driver_vars, sys >>
CallWithAddr(addr_null) ==
    /\ fn_call.op = "getpeername"
    /\ fn_call' = NamesCall(fn_call.arg[1], addr_null, fn_call.arg[3])
    /\ UNCHANGED << driver_vars, sys >>
CallWithAddrLen(addrlen) ==
    /\ fn_call.op = "getpeername"
    /\ fn_call' = NamesCall(fn_call.arg[1], fn_call.arg[2], addrlen)
    /\ UNCHANGED << driver_vars, sys >>

InitNames ==
    /\ InitDriver /\ checksums = DefaultChecksums
    /\ fn_call = NamesCall(NoObject, TRUE, NullLen)
NextNames ==
    \/ \E obj \in Sockets \cup {NoObject} : CallOnObject(obj)
    \/ \E addr_null \in BOOLEAN : CallWithAddr(addr_null)
    \/ \E addrlen \in AddrLens : CallWithAddrLen(addrlen)
SpecNames == InitNames /\ [][NextNames]_vars

\* C39: for every object and every combination of the addr and addrlen
\* arguments sys_getpeername returns what sys_getsockname returns and leaves
\* in *addr and *addrlen what sys_getsockname leaves there; an address it
\* writes is the socket's local endpoint, whatever the remote endpoint is.
C39_PeernameIsSockname ==
    fn_call.op = "getpeername" =>
        /\ fn_call.ret[1] = fn_call.ret[2]
        /\ fn_call.ret[1].addr # << >> =>
              /\ fn_call.arg[1].local # << >>
              /\ fn_call.ret[1].ret = 0
              /\ fn_call.ret[1].addr =
                    IF fn_call.arg[1].local[1].family = "Ipv4"
                    THEN << sockaddr_in_from(fn_call.arg[1].local[1]) >>
                    ELSE << sockaddr_in6_from(fn_call.arg[1].local[1]) >>

\* C39 witness: sys_getpeername on a socket whose remote endpoint differs
\* from its local one has written the local IPv4 endpoint and set *addrlen
\* from 28 to 16.
C39_Witness ==
    /\ fn_call.op = "getpeername"
    /\ fn_call.arg[1].kind = "socket"
    /\ fn_call.arg[1].peer # << >>
    /\ fn_call.arg[1].local # << >>
    /\ fn_call.arg[1].peer[1].port # fn_call.arg[1].local[1].port
    /\ fn_call.arg[1].local[1].family = "Ipv4"
    /\ fn_call.arg[3] = 28
    /\ fn_call.ret[1].ret = 0
    /\ fn_call.ret[1].addrlen = 16
    /\ fn_call.ret[1].addr # << >>
    /\ fn_call.ret[1].addr[1].sin_port = 20480

====
